---------------------------- MODULE Spec2Model ----------------------------
(***************************************************************************)
(* A model of the generatorbnf text generator: Parser (parser.ts), the AST *)
(* evaluator (ast/nodes.ts) and the Generator facade (generator.ts).       *)
(*                                                                         *)
(* A JavaScript string is a sequence of one-character strings, so that     *)
(* trimming, numeric parsing and concatenation are computed, not assumed.  *)
(* A JavaScript value is a tagged record; objects live in a heap and are   *)
(* referred to by address, so that aliasing between the caller's knowledge *)
(* object and the evaluator's snapshots is visible.                        *)
(***************************************************************************)
EXTENDS Integers, Sequences, FiniteSets, TLC

(***************************************************************************)
(* JavaScript values                                                       *)
(***************************************************************************)
Num(n) == [t |-> "number", n |-> n]
NaN == [t |-> "NaN"]
Str(s) == [t |-> "string", s |-> s]
Bool(b) == [t |-> "boolean", b |-> b]
Undefined == [t |-> "undefined"]
Null == [t |-> "null"]
Ref(a) == [t |-> "object", a |-> a]

\* typeof v
TypeOf(v) ==
  CASE v.t = "NaN" -> "number"
    [] v.t = "null" -> "object"
    [] OTHER -> v.t

EmptyMap == <<>>

\* m with key k set to v (Map.set, obj[k] = v)
MapSet(m, k, v) == [x \in (DOMAIN m) \cup {k} |-> IF x = k THEN v ELSE m[x]]

\* Map.get / obj[k]: undefined when absent
MapGet(m, k) == IF k \in DOMAIN m THEN m[k] ELSE Undefined

(***************************************************************************)
(* Strings                                                                 *)
(***************************************************************************)
Digits == <<"0", "1", "2", "3", "4", "5", "6", "7", "8", "9">>

IsDigitChar(c) == \E i \in 1..10 : Digits[i] = c

DigitVal(c) == (CHOOSE i \in 1..10 : Digits[i] = c) - 1

IsWhitespaceChar(c) == c \in {" ", "\n", "\t", "\r"}

RECURSIVE TrimStart(_)
TrimStart(s) ==
  IF s # <<>> /\ IsWhitespaceChar(Head(s)) THEN TrimStart(Tail(s)) ELSE s

RECURSIVE TrimEnd(_)
TrimEnd(s) ==
  IF s # <<>> /\ IsWhitespaceChar(s[Len(s)])
  THEN TrimEnd(SubSeq(s, 1, Len(s) - 1))
  ELSE s

\* String.prototype.trim
Trim(s) == TrimEnd(TrimStart(s))

RECURSIVE AllDigits(_)
AllDigits(s) == s = <<>> \/ (IsDigitChar(Head(s)) /\ AllDigits(Tail(s)))

RECURSIVE DigitsValue(_)
DigitsValue(s) ==
  IF s = <<>> THEN 0 ELSE DigitsValue(SubSeq(s, 1, Len(s) - 1)) * 10 + DigitVal(s[Len(s)])

\* The value of the trimmed text u: the empty text is 0, an optionally signed
\* run of digits is its value, anything else is NaN
TrimmedToNumber(u) ==
  LET signed == u # <<>> /\ Head(u) \in {"-", "+"}
      body == IF signed THEN Tail(u) ELSE u
  IN IF u = <<>> THEN Num(0)
     ELSE IF body # <<>> /\ AllDigits(body)
          THEN Num(IF signed /\ Head(u) = "-" THEN 0 - DigitsValue(body) ELSE DigitsValue(body))
          ELSE NaN

\* The string-to-number conversion of Number(s), for integer literals
StringToNumber(s) == TrimmedToNumber(Trim(s))

RECURSIVE NatToString(_)
NatToString(n) ==
  IF n < 10 THEN <<Digits[n + 1]>> ELSE NatToString(n \div 10) \o <<Digits[(n % 10) + 1]>>

\* Number.prototype.toString for integers
NumberToString(n) == IF n < 0 THEN <<"-">> \o NatToString(0 - n) ELSE NatToString(n)

\* Number(v)
ToNumber(v) ==
  CASE v.t = "number" -> v
    [] v.t = "NaN" -> NaN
    [] v.t = "string" -> StringToNumber(v.s)
    [] v.t = "boolean" -> Num(IF v.b THEN 1 ELSE 0)
    [] v.t = "null" -> Num(0)
    [] OTHER -> NaN

\* isNaN(Number(v))
IsNaNNumber(v) == ToNumber(v).t = "NaN"

\* String(v)
ToStr(v) ==
  CASE v.t = "number" -> NumberToString(v.n)
    [] v.t = "NaN" -> <<"N", "a", "N">>
    [] v.t = "string" -> v.s
    [] v.t = "boolean" -> IF v.b THEN <<"t", "r", "u", "e">> ELSE <<"f", "a", "l", "s", "e">>
    [] v.t = "undefined" -> <<"u", "n", "d", "e", "f", "i", "n", "e", "d">>
    [] v.t = "null" -> <<"n", "u", "l", "l">>
    [] OTHER -> <<"[", "o", "b", "j", "e", "c", "t", " ", "O", "b", "j", "e", "c", "t", "]">>

\* ToBoolean(v): the truthiness tested by `if (v)` and `v || d`
Truthy(v) ==
  CASE v.t = "number" -> v.n # 0
    [] v.t = "NaN" -> FALSE
    [] v.t = "string" -> v.s # <<>>
    [] v.t = "boolean" -> v.b
    [] v.t = "undefined" -> FALSE
    [] v.t = "null" -> FALSE
    [] OTHER -> TRUE

\* a || b
OrElse(a, b) == IF Truthy(a) THEN a ELSE b

\* x + y, x - y and x * y for the numbers (or NaN) x and y
NumberAdd(x, y) == IF x.t = "NaN" \/ y.t = "NaN" THEN NaN ELSE Num(x.n + y.n)
NumberSub(x, y) == IF x.t = "NaN" \/ y.t = "NaN" THEN NaN ELSE Num(x.n - y.n)
NumberMul(x, y) == IF x.t = "NaN" \/ y.t = "NaN" THEN NaN ELSE Num(x.n * y.n)

\* a + b
JsAdd(a, b) ==
  IF a.t \in {"string", "object"} \/ b.t \in {"string", "object"}
  THEN Str(ToStr(a) \o ToStr(b))
  ELSE NumberAdd(ToNumber(a), ToNumber(b))

\* a - b
JsSub(a, b) == NumberSub(ToNumber(a), ToNumber(b))

\* a * b
JsMul(a, b) == NumberMul(ToNumber(a), ToNumber(b))

\* the quotient of two numbers where it is a whole number, and 0 / 0
NumberDiv(a, b) ==
  IF a.t = "NaN" \/ b.t = "NaN" THEN NaN
  ELSE CASE b.n # 0 /\ a.n % b.n = 0 -> Num(a.n \div b.n)
         [] a.n = 0 /\ b.n = 0 -> NaN

\* a / b
JsDiv(a, b) == NumberDiv(ToNumber(a), ToNumber(b))

(***************************************************************************)
(* Tokens (types.ts TokenType, Token).  `value` is the token's text.       *)
(***************************************************************************)
Tok(type, value, line, column) ==
  [type |-> type, value |-> value, line |-> line, column |-> column]

(***************************************************************************)
(* AST nodes (ast/nodes.ts)                                                *)
(***************************************************************************)
Literal(value) == [k |-> "Literal", value |-> value]
RuleReference(ruleName) == [k |-> "RuleReference", ruleName |-> ruleName]
VariableReference(path, isKnowledge) ==
  [k |-> "VariableReference", path |-> path, isKnowledge |-> isKnowledge]
Assignment(target, operator, expression) ==
  [k |-> "Assignment", target |-> target, operator |-> operator, expression |-> expression]
BinaryExpression(left, operator, right) ==
  [k |-> "BinaryExpression", left |-> left, operator |-> operator, right |-> right]
\* an absent falseValue is NoNode
NoNode == [k |-> "undefined"]
ConditionalExpression(condition, trueValue, falseValue) ==
  [k |-> "ConditionalExpression", condition |-> condition,
   trueValue |-> trueValue, falseValue |-> falseValue]
SilentExpression(expression) == [k |-> "SilentExpression", expression |-> expression]
CompoundExpression(expressions) == [k |-> "CompoundExpression", expressions |-> expressions]
Alternative(elements, weight) == [k |-> "Alternative", elements |-> elements, weight |-> weight]
Rule(name, alternatives) == [k |-> "Rule", name |-> name, alternatives |-> alternatives]

(***************************************************************************)
(* Parser (parser/parser.ts).  `cur` is Parser.current (0-based); a parse  *)
(* function returns the node, the new current and the ParseError thrown,   *)
(* if any.                                                                 *)
(***************************************************************************)
NoError == [name |-> "none"]
ParseError(msg, line, column) ==
  [name |-> "ParseError", msg |-> msg, line |-> line, column |-> column]
POk(node, cur) == [node |-> node, cur |-> cur, err |-> NoError]
\* a ParseError carrying the line and column of the token before the current
\* one
PFailBefore(toks, msg, cur) ==
  [node |-> NoNode, cur |-> cur,
   err |-> ParseError(msg, toks[IF cur = 0 THEN 1 ELSE cur].line,
                      toks[IF cur = 0 THEN 1 ELSE cur].column)]

\* throw new ParseError(message, this.peek().line, this.peek().column) with
\* Parser.current = cur
PFail(toks, msg, cur) ==
  [node |-> NoNode, cur |-> cur,
   err |-> ParseError(msg, toks[cur + 1].line, toks[cur + 1].column)]

Peek(toks, cur) == toks[cur + 1]
ParserIsAtEnd(toks, cur) == Peek(toks, cur).type = "EOF"
Check(toks, cur, type) == ~ParserIsAtEnd(toks, cur) /\ Peek(toks, cur).type = type
CheckAny(toks, cur, types) == ~ParserIsAtEnd(toks, cur) /\ Peek(toks, cur).type \in types
\* tokens[i]?.type
TypeAt(toks, i) == IF i + 1 <= Len(toks) THEN toks[i + 1].type ELSE "undefined"

IsInExpressionContext(toks, cur) ==
  Peek(toks, cur).type \in
    {"PLUS", "MINUS", "MULTIPLY", "DIVIDE", "EQUALS", "NOT_EQUALS", "GREATER_THAN",
     "LESS_THAN", "GREATER_EQUAL", "LESS_EQUAL", "RPAREN", "ASSIGN", "PLUS_ASSIGN",
     "MINUS_ASSIGN"}

IsStartOfNextRule(toks, cur) ==
  /\ Check(toks, cur, "DOLLAR")
  /\ TypeAt(toks, cur + 1) = "IDENTIFIER"
  /\ TypeAt(toks, cur + 2) = "ASSIGN_OP"

\* while (match(DOT)) path.push(consume(IDENTIFIER, ...))
RECURSIVE ParsePathRest(_, _, _)
ParsePathRest(toks, cur, path) ==
  IF Check(toks, cur, "DOT")
  THEN IF Check(toks, cur + 1, "IDENTIFIER")
       THEN ParsePathRest(toks, cur + 2, Append(path, Peek(toks, cur + 1).value))
       ELSE [path |-> path, cur |-> cur + 1,
             err |-> PFail(toks, "Expected property name after .", cur + 1).err]
  ELSE [path |-> path, cur |-> cur, err |-> NoError]

\* The first $ is already consumed.
ParseDollarExpression(toks, cur) ==
  LET Reference(r, isKnowledge) ==
        IF r.err # NoError THEN [node |-> NoNode, cur |-> r.cur, err |-> r.err]
        ELSE POk(VariableReference(r.path, isKnowledge), r.cur)
  IN IF Check(toks, cur, "DOLLAR")
     THEN IF ~Check(toks, cur + 1, "DOT") THEN PFail(toks, "Expected . after $$", cur + 1)
          ELSE IF ~Check(toks, cur + 2, "IDENTIFIER")
               THEN PFail(toks, "Expected property name after $$.", cur + 2)
               ELSE Reference(ParsePathRest(toks, cur + 3,
                                            <<<<"$">>, Peek(toks, cur + 2).value>>), TRUE)
     ELSE IF ~Check(toks, cur, "IDENTIFIER") THEN PFail(toks, "Expected identifier after $", cur)
          ELSE IF Check(toks, cur + 1, "DOT")
               THEN Reference(ParsePathRest(toks, cur + 1, <<Peek(toks, cur).value>>), FALSE)
               ELSE IF IsInExpressionContext(toks, cur + 1)
                    THEN POk(VariableReference(<<Peek(toks, cur).value>>, FALSE), cur + 1)
                    ELSE POk(RuleReference(Peek(toks, cur).value), cur + 1)

\* const x = value; followed by the statements body, which use x
With(value, body(_)) == body(value)

RECURSIVE ParseExpression(_, _)
RECURSIVE ParseAssignment(_, _)

ParsePrimary(toks, cur) ==
  IF CheckAny(toks, cur, {"NUMBER", "STRING", "IDENTIFIER"})
  THEN POk(Literal(Str(Peek(toks, cur).value)), cur + 1)
  ELSE IF Check(toks, cur, "DOLLAR") THEN ParseDollarExpression(toks, cur + 1)
  ELSE IF Check(toks, cur, "LPAREN")
  THEN With(ParseExpression(toks, cur + 1), LAMBDA expr :
         IF expr.err # NoError THEN expr
         ELSE IF Check(toks, expr.cur, "RPAREN") THEN POk(expr.node, expr.cur + 1)
         ELSE PFail(toks, "Expected ')' after expression", expr.cur))
  ELSE PFail(toks, "Unexpected token in expression", cur)

\* while (match(types)) { right = next(); expr = new BinaryExpression(...) }
RECURSIVE MultiplicationLoop(_, _, _)
MultiplicationLoop(toks, cur, expr) ==
  IF CheckAny(toks, cur, {"MULTIPLY", "DIVIDE"})
  THEN With(ParsePrimary(toks, cur + 1), LAMBDA right :
         IF right.err # NoError THEN right
         ELSE MultiplicationLoop(toks, right.cur,
                BinaryExpression(expr, Peek(toks, cur).value, right.node)))
  ELSE POk(expr, cur)

ParseMultiplication(toks, cur) ==
  With(ParsePrimary(toks, cur), LAMBDA expr :
    IF expr.err # NoError THEN expr ELSE MultiplicationLoop(toks, expr.cur, expr.node))

\* one loop for the four arithmetic operators, each applied to what stands
\* left of it
RECURSIVE LeftToRightLoop(_, _, _)
LeftToRightLoop(toks, cur, expr) ==
  IF CheckAny(toks, cur, {"PLUS", "MINUS", "MULTIPLY", "DIVIDE"})
  THEN With(ParsePrimary(toks, cur + 1), LAMBDA right :
         IF right.err # NoError THEN right
         ELSE LeftToRightLoop(toks, right.cur,
                BinaryExpression(expr, Peek(toks, cur).value, right.node)))
  ELSE POk(expr, cur)

RECURSIVE AdditionLoop(_, _, _)
AdditionLoop(toks, cur, expr) ==
  IF CheckAny(toks, cur, {"PLUS", "MINUS"})
  THEN With(ParseMultiplication(toks, cur + 1), LAMBDA right :
         IF right.err # NoError THEN right
         ELSE AdditionLoop(toks, right.cur,
                BinaryExpression(expr, Peek(toks, cur).value, right.node)))
  ELSE POk(expr, cur)

ParseAddition(toks, cur) ==
  With(ParseMultiplication(toks, cur), LAMBDA expr :
    IF expr.err # NoError THEN expr ELSE AdditionLoop(toks, expr.cur, expr.node))

RECURSIVE ComparisonLoop(_, _, _)
ComparisonLoop(toks, cur, expr) ==
  IF CheckAny(toks, cur, {"EQUALS", "NOT_EQUALS", "GREATER_THAN", "GREATER_EQUAL",
                          "LESS_THAN", "LESS_EQUAL"})
  THEN With(ParseAddition(toks, cur + 1), LAMBDA right :
         IF right.err # NoError THEN right
         ELSE ComparisonLoop(toks, right.cur,
                BinaryExpression(expr, Peek(toks, cur).value, right.node)))
  ELSE POk(expr, cur)

ParseComparison(toks, cur) ==
  With(ParseAddition(toks, cur), LAMBDA expr :
    IF expr.err # NoError THEN expr ELSE ComparisonLoop(toks, expr.cur, expr.node))

\* `temp_${this.current}`
TempVarName(cur) == <<"t", "e", "m", "p", "_">> \o NatToString(cur)

ParseAssignment(toks, cur) ==
  With(ParseComparison(toks, cur), LAMBDA expr :
    IF expr.err # NoError THEN expr
    ELSE IF CheckAny(toks, expr.cur, {"ASSIGN", "PLUS_ASSIGN", "MINUS_ASSIGN"})
    THEN With(ParseAssignment(toks, expr.cur + 1), LAMBDA right :
           IF right.err # NoError THEN right
           ELSE POk(Assignment(IF expr.node.k = "VariableReference" THEN expr.node
                               ELSE VariableReference(<<TempVarName(right.cur)>>, FALSE),
                               Peek(toks, expr.cur).value, right.node),
                    right.cur))
    ELSE expr)

ParseConditional(toks, cur) ==
  With(ParseAssignment(toks, cur), LAMBDA expr :
    IF expr.err # NoError THEN expr
    ELSE IF Check(toks, expr.cur, "QUESTION")
    THEN With(ParseAssignment(toks, expr.cur + 1), LAMBDA trueValue :
           IF trueValue.err # NoError THEN trueValue
           ELSE IF Check(toks, trueValue.cur, "PIPE")
           THEN With(ParseAssignment(toks, trueValue.cur + 1), LAMBDA falseValue :
                  IF falseValue.err # NoError THEN falseValue
                  ELSE POk(ConditionalExpression(expr.node, trueValue.node, falseValue.node),
                           falseValue.cur))
           ELSE POk(ConditionalExpression(expr.node, trueValue.node, NoNode), trueValue.cur))
    ELSE expr)

ParseExpression(toks, cur) == ParseConditional(toks, cur)

\* do { expressions.push(parseExpression()) } while (match(SEMICOLON))
RECURSIVE ParseExpressionList(_, _, _)
ParseExpressionList(toks, cur, expressions) ==
  With(ParseExpression(toks, cur), LAMBDA expr :
    IF expr.err # NoError THEN [list |-> expressions, cur |-> expr.cur, err |-> expr.err]
    ELSE IF Check(toks, expr.cur, "SEMICOLON")
    THEN ParseExpressionList(toks, expr.cur + 1, Append(expressions, expr.node))
    ELSE [list |-> Append(expressions, expr.node), cur |-> expr.cur, err |-> NoError])

\* The [ is already consumed.
ParseBracketedExpression(toks, cur) ==
  With(Check(toks, cur, "EXCLAMATION"), LAMBDA isSilent :
    With(ParseExpressionList(toks, IF isSilent THEN cur + 1 ELSE cur, <<>>), LAMBDA r :
      IF r.err # NoError THEN [node |-> NoNode, cur |-> r.cur, err |-> r.err]
      ELSE IF ~Check(toks, r.cur, "RBRACKET")
      THEN PFail(toks, "Expected ']' after bracketed expression", r.cur)
      ELSE With(IF Len(r.list) = 1 THEN r.list[1] ELSE CompoundExpression(r.list),
                LAMBDA result :
                  POk(IF isSilent THEN SilentExpression(result) ELSE result, r.cur + 1))))

ParseElement(toks, cur) ==
  IF Check(toks, cur, "LBRACKET") THEN ParseBracketedExpression(toks, cur + 1)
  ELSE IF Check(toks, cur, "DOLLAR") THEN ParseDollarExpression(toks, cur + 1)
  ELSE IF ~ParserIsAtEnd(toks, cur) THEN POk(Literal(Str(Peek(toks, cur).value)), cur + 1)
  ELSE PFail(toks, "Unexpected token", cur)

\* The element loop of parseAlternative.
RECURSIVE ParseElements(_, _, _)
ParseElements(toks, cur, elements) ==
  IF ParserIsAtEnd(toks, cur) \/ Check(toks, cur, "PIPE") \/ IsStartOfNextRule(toks, cur)
  THEN [elements |-> elements, weight |-> 1, cur |-> cur, err |-> NoError]
  ELSE IF Check(toks, cur, "NEWLINE")
  THEN ParseElements(toks, cur + 1, Append(elements, Literal(Str(<<"\n">>))))
  ELSE With(ParseElement(toks, cur), LAMBDA element :
         IF element.err # NoError
         THEN [elements |-> elements, weight |-> 1, cur |-> element.cur, err |-> element.err]
         ELSE IF Check(toks, element.cur, "DOUBLE_COLON") /\ Check(toks, element.cur + 1, "NUMBER")
         THEN [elements |-> Append(elements, element.node),
               weight |-> DigitsValue(Peek(toks, element.cur + 1).value),
               cur |-> element.cur + 2, err |-> NoError]
         ELSE ParseElements(toks,
                IF Check(toks, element.cur, "DOUBLE_COLON") THEN element.cur + 1
                ELSE element.cur,
                Append(elements, element.node)))

ParseAlternative(toks, cur) ==
  With(ParseElements(toks, cur, <<>>), LAMBDA r :
    IF r.err # NoError THEN [node |-> NoNode, cur |-> r.cur, err |-> r.err]
    ELSE IF Len(r.elements) = 0 THEN PFail(toks, "Empty alternative", r.cur)
    ELSE POk(Alternative(r.elements, r.weight), r.cur))

RECURSIVE ParseAlternativesRest(_, _, _)
ParseAlternativesRest(toks, cur, alternatives) ==
  IF Check(toks, cur, "PIPE")
  THEN With(ParseAlternative(toks, cur + 1), LAMBDA a :
         IF a.err # NoError THEN a
         ELSE ParseAlternativesRest(toks, a.cur, Append(alternatives, a.node)))
  ELSE POk(alternatives, cur)

ParseAlternatives(toks, cur) ==
  With(ParseAlternative(toks, cur), LAMBDA a :
    IF a.err # NoError THEN a ELSE ParseAlternativesRest(toks, a.cur, <<a.node>>))

ParseRule(toks, cur) ==
  IF ~Check(toks, cur, "DOLLAR") THEN PFail(toks, "Expected $ before rule name", cur)
  ELSE IF ~Check(toks, cur + 1, "IDENTIFIER")
  THEN PFail(toks, "Expected rule name after $", cur + 1)
  ELSE IF ~Check(toks, cur + 2, "ASSIGN_OP")
  THEN PFail(toks, "Expected ':=' after rule name", cur + 2)
  ELSE With(ParseAlternatives(toks, cur + 3), LAMBDA alternatives :
         IF alternatives.err # NoError THEN alternatives
         ELSE POk(Rule(Peek(toks, cur + 1).value, alternatives.node), alternatives.cur))

RECURSIVE SkipNewlines(_, _)
SkipNewlines(toks, cur) ==
  IF Check(toks, cur, "NEWLINE") THEN SkipNewlines(toks, cur + 1) ELSE cur

\* The rule loop of parse(): rules is the Map from rule name to Rule.
RECURSIVE ParseRules(_, _, _)
ParseRules(toks, cur, rules) ==
  IF ParserIsAtEnd(toks, cur) THEN [rules |-> rules, err |-> NoError]
  ELSE With(SkipNewlines(toks, cur), LAMBDA c :
         IF ParserIsAtEnd(toks, c) THEN [rules |-> rules, err |-> NoError]
         ELSE With(ParseRule(toks, c), LAMBDA rule :
                IF rule.err # NoError THEN [rules |-> EmptyMap, err |-> rule.err]
                ELSE ParseRules(toks, rule.cur, MapSet(rules, rule.node.name, rule.node))))

\* Parser.parse: the Grammar (its rules), or the ParseError thrown
Parse(toks) ==
  With(ParseRules(toks, 0, EmptyMap), LAMBDA r :
    IF r.err # NoError THEN r
    ELSE IF DOMAIN r.rules = {}
    THEN [rules |-> EmptyMap, err |-> ParseError("No rules found", 1, 1)]
    ELSE r)

(***************************************************************************)
(* The heap.  An object or array is a cell; a value of type object is the  *)
(* address of its cell.  A knowledge object as the caller sees it (its     *)
(* deep value) is a tree.                                                  *)
(***************************************************************************)
ObjectCell(props) == [isArray |-> FALSE, props |-> props, items |-> <<>>]
ArrayCell(items) == [isArray |-> TRUE, props |-> EmptyMap, items |-> items]
Tree(f) == [t |-> "tree", f |-> f]
ArrayTree(items) == [t |-> "array", items |-> items]

\* a new cell: the heap with it, and its address
Alloc(heap, cell) == [heap |-> Append(heap, cell), a |-> Len(heap) + 1]

\* obj[key] = v on the cell at address a
HeapSet(heap, a, key, v) == [heap EXCEPT ![a].props = MapSet(heap[a].props, key, v)]

Length == <<"l", "e", "n", "g", "t", "h">>

\* key in obj, for the cell obj and a key that is an identifier
HasProperty(cell, key) == key \in DOMAIN cell.props \/ (cell.isArray /\ key = Length)

\* obj[key], for the cell obj and a key that is an identifier
GetProperty(cell, key) ==
  IF key \in DOMAIN cell.props THEN cell.props[key]
  ELSE IF cell.isArray /\ key = Length THEN Num(Len(cell.items))
  ELSE Undefined

\* the deep value reachable from v
RECURSIVE ReadBack(_, _)
ReadBack(heap, v) ==
  IF v.t = "object"
  THEN IF heap[v.a].isArray
       THEN ArrayTree([i \in 1..Len(heap[v.a].items) |-> ReadBack(heap, heap[v.a].items[i])])
       ELSE Tree([key \in DOMAIN heap[v.a].props |-> ReadBack(heap, heap[v.a].props[key])])
  ELSE v

\* allocate the cells of a tree: the heap, and the value standing for the tree
RECURSIVE AllocTree(_, _)
RECURSIVE AllocProps(_, _, _, _)
RECURSIVE AllocItems(_, _, _, _)
AllocProps(heap, f, keys, props) ==
  IF keys = {} THEN Alloc(heap, ObjectCell(props))
  ELSE With(CHOOSE x \in keys : TRUE, LAMBDA key :
         With(AllocTree(heap, f[key]), LAMBDA sub :
           AllocProps(sub.heap, f, keys \ {key}, MapSet(props, key, sub.value))))
AllocItems(heap, src, i, items) ==
  IF i > Len(src) THEN Alloc(heap, ArrayCell(items))
  ELSE With(AllocTree(heap, src[i]), LAMBDA sub :
         AllocItems(sub.heap, src, i + 1, Append(items, sub.value)))
AllocTree(heap, tree) ==
  IF tree.t \in {"tree", "array"}
  THEN With(IF tree.t = "tree" THEN AllocProps(heap, tree.f, DOMAIN tree.f, EmptyMap)
            ELSE AllocItems(heap, tree.items, 1, <<>>),
            LAMBDA r : [heap |-> r.heap, value |-> Ref(r.a)])
  ELSE [heap |-> heap, value |-> tree]

\* A copy that shares: the value itself, no new cell ("newKnowledge =
\* context.knowledge" in place of the JSON round trip)
JsonCloneShared(heap, v) == [heap |-> heap, value |-> v]

\* JSON.parse(JSON.stringify(v)): every object reachable from v is copied
\* into a new cell; a property holding undefined is dropped, an array
\* element holding undefined becomes null, NaN becomes null.
RECURSIVE JsonClone(_, _)
RECURSIVE JsonCloneProps(_, _, _, _)
RECURSIVE JsonCloneItems(_, _, _, _)
JsonCloneProps(heap, src, keys, props) ==
  IF keys = {} THEN Alloc(heap, ObjectCell(props))
  ELSE With(CHOOSE x \in keys : TRUE, LAMBDA key :
         IF src[key].t = "undefined"
         THEN JsonCloneProps(heap, src, keys \ {key}, props)
         ELSE With(JsonClone(heap, src[key]), LAMBDA sub :
                JsonCloneProps(sub.heap, src, keys \ {key}, MapSet(props, key, sub.value))))
JsonCloneItems(heap, src, i, items) ==
  IF i > Len(src) THEN Alloc(heap, ArrayCell(items))
  ELSE With(JsonClone(heap, src[i]), LAMBDA sub :
         JsonCloneItems(sub.heap, src, i + 1, Append(items, sub.value)))
JsonClone(heap, v) ==
  IF v.t = "object"
  THEN With(IF heap[v.a].isArray
            THEN JsonCloneItems(heap, heap[v.a].items, 1, <<>>)
            ELSE JsonCloneProps(heap, heap[v.a].props, DOMAIN heap[v.a].props, EmptyMap),
            LAMBDA r : [heap |-> r.heap, value |-> Ref(r.a)])
  ELSE [heap |-> heap, value |-> IF v.t \in {"NaN", "undefined"} THEN Null ELSE v]

(***************************************************************************)
(* Errors (types.ts EvaluationError; TypeError is the engine's)            *)
(***************************************************************************)
\* `arg` is the name or path the message is about, `cause` the wrapped error
EvaluationError(msg, arg) ==
  [name |-> "EvaluationError", msg |-> msg, arg |-> arg, cause |-> NoError]
WrappedEvaluationError(msg, arg, cause) ==
  [name |-> "EvaluationError", msg |-> msg, arg |-> arg, cause |-> cause]
TypeError(msg) == [name |-> "TypeError", msg |-> msg, arg |-> <<>>, cause |-> NoError]

\* the message templates of the error and of the errors it wraps
RECURSIVE Messages(_)
Messages(e) == IF e = NoError THEN {} ELSE {e.msg} \cup Messages(e.cause)

(***************************************************************************)
(* Arithmetic of the seeded random source.  The source computes in IEEE    *)
(* doubles and with 32-bit integer operators, on values that exceed TLC's  *)
(* integers; so a natural number is a sequence of limbs (digits to the     *)
(* base 2^15, least significant first, no leading zero limb).  Every       *)
(* operation is exact, and the rounding a double multiplication or         *)
(* addition performs is RoundToDouble.                                     *)
(***************************************************************************)
Base == 2 ^ 15

RECURSIVE StripZeros(_)
StripZeros(a) ==
  IF a # <<>> /\ a[Len(a)] = 0 THEN StripZeros(SubSeq(a, 1, Len(a) - 1)) ELSE a

\* the limbs of a TLC integer n >= 0
RECURSIVE NatOf(_)
NatOf(n) == IF n = 0 THEN <<>> ELSE <<n % Base>> \o NatOf(n \div Base)

\* the TLC integer of a small natural
RECURSIVE IntOf(_)
IntOf(a) == IF a = <<>> THEN 0 ELSE Head(a) + Base * IntOf(Tail(a))

Limb(a, i) == IF i <= Len(a) THEN a[i] ELSE 0

RECURSIVE AddFrom(_, _, _, _)
AddFrom(a, b, i, carry) ==
  IF i > Len(a) /\ i > Len(b)
  THEN IF carry = 0 THEN <<>> ELSE <<carry>>
  ELSE LET t == Limb(a, i) + Limb(b, i) + carry
       IN <<t % Base>> \o AddFrom(a, b, i + 1, t \div Base)

AddNat(a, b) == StripZeros(AddFrom(a, b, 1, 0))

\* a * d for a limb d
RECURSIVE MulLimbFrom(_, _, _, _)
MulLimbFrom(a, d, i, carry) ==
  IF i > Len(a)
  THEN IF carry = 0 THEN <<>> ELSE <<carry>>
  ELSE LET t == a[i] * d + carry
       IN <<t % Base>> \o MulLimbFrom(a, d, i + 1, t \div Base)

RECURSIVE MulNat(_, _)
MulNat(a, b) ==
  IF a = <<>> \/ b = <<>> THEN <<>>
  ELSE AddNat(StripZeros(MulLimbFrom(a, Head(b), 1, 0)),
              LET rest == MulNat(a, Tail(b)) IN IF rest = <<>> THEN <<>> ELSE <<0>> \o rest)

\* a <= b
RECURSIVE LeqFrom(_, _, _)
LeqFrom(a, b, i) ==
  IF i = 0 THEN TRUE
  ELSE IF Limb(a, i) # Limb(b, i) THEN Limb(a, i) < Limb(b, i)
  ELSE LeqFrom(a, b, i - 1)
LeqNat(a, b) == LeqFrom(a, b, IF Len(a) > Len(b) THEN Len(a) ELSE Len(b))

\* the bits of a, least significant first (15 per limb)
BitsOfNat(a) == [i \in 1..(15 * Len(a)) |-> (a[((i - 1) \div 15) + 1] \div (2 ^ ((i - 1) % 15))) % 2]

Bit(b, i) == IF i >= 1 /\ i <= Len(b) THEN b[i] ELSE 0

\* the natural with the given bits
RECURSIVE LimbOfBits(_, _, _)
LimbOfBits(b, j, k) ==
  IF k = 15 THEN 0 ELSE Bit(b, 15 * (j - 1) + k + 1) * (2 ^ k) + LimbOfBits(b, j, k + 1)
NatOfBits(b) == StripZeros([j \in 1..((Len(b) + 14) \div 15) |-> LimbOfBits(b, j, 0)])

\* the number of bits of a
BitLength(a) ==
  LET b == BitsOfNat(a)
      ones == {i \in 1..Len(b) : b[i] = 1}
  IN IF ones = {} THEN 0 ELSE CHOOSE i \in ones : \A j \in ones : j <= i

\* floor(a / 2^n)
ShiftRight(a, n) ==
  LET b == BitsOfNat(a)
  IN IF n >= Len(b) THEN <<>> ELSE NatOfBits([i \in 1..(Len(b) - n) |-> b[i + n]])

\* a * 2^n
ShiftLeft(a, n) ==
  LET b == BitsOfNat(a)
  IN NatOfBits([i \in 1..(Len(b) + n) |-> IF i <= n THEN 0 ELSE b[i - n]])

\* a mod 2^n
LowBits(a, n) ==
  LET b == BitsOfNat(a)
  IN NatOfBits([i \in 1..n |-> Bit(b, i)])

\* bitwise exclusive or
XorNat(a, b) ==
  LET x == BitsOfNat(a)
      y == BitsOfNat(b)
  IN NatOfBits([i \in 1..(IF Len(x) > Len(y) THEN Len(x) ELSE Len(y)) |->
                  (Bit(x, i) + Bit(y, i)) % 2])

\* 2^n - a, for 0 < a <= 2^n
Complement(a, n) ==
  LET b == BitsOfNat(a)
  IN LowBits(AddNat(NatOfBits([i \in 1..n |-> 1 - Bit(b, i)]), <<1>>), n)

\* the value of a decimal literal written in the source
RECURSIVE Decimal(_)
Decimal(digits) ==
  IF digits = <<>> THEN <<>>
  ELSE AddNat(MulNat(Decimal(SubSeq(digits, 1, Len(digits) - 1)), <<10>>),
              NatOf(digits[Len(digits)]))

\* bits of mantissa of an IEEE double
MantissaBits == 53

\* the double nearest to the natural a (ties to even)
RoundToDouble(a) ==
  With(BitLength(a) - MantissaBits, LAMBDA d :
    IF d <= 0 THEN a
    ELSE With(BitsOfNat(a), LAMBDA b :
           \* the dropped bits are more than half a unit, or half and kept is odd
           IF b[d] = 1 /\ ((\E i \in 1..(d - 1) : b[i] = 1) \/ b[d + 1] = 1)
           THEN ShiftLeft(AddNat(ShiftRight(a, d), <<1>>), d)
           ELSE ShiftLeft(ShiftRight(a, d), d)))

\* x >>> 0 for a natural x
ToUint32(a) == LowBits(a, 32)

(***************************************************************************)
(* Generator.createSeededRandom (generator.ts)                             *)
(***************************************************************************)
LcgMultiplier == Decimal(<<1, 6, 6, 4, 5, 2, 5>>)
LcgIncrement == Decimal(<<1, 0, 1, 3, 9, 0, 4, 2, 2, 3>>)
PcgMultiplier == Decimal(<<7, 4, 7, 7, 9, 6, 4, 0, 5>>)
PcgIncrement == Decimal(<<2, 8, 9, 1, 3, 3, 6, 4, 5, 3>>)
PcgOutputMultiplier == Decimal(<<2, 7, 7, 8, 0, 3, 7, 3, 7>>)

\* let state = seed * 1664525 + 1013904223
SeedState(seed) ==
  RoundToDouble(AddNat(RoundToDouble(MulNat(NatOf(seed), LcgMultiplier)), LcgIncrement))

\* state = ((state * 747796405) + 2891336453) >>> 0
StepState(state) ==
  ToUint32(RoundToDouble(AddNat(RoundToDouble(MulNat(state, PcgMultiplier)), PcgIncrement)))

\* n as the signed 32-bit integer ToInt32(n): its sign and its magnitude
ToInt32(a) ==
  With(LowBits(a, 32), LAMBDA low :
    IF Bit(BitsOfNat(low), 32) = 1
    THEN [negative |-> TRUE, magnitude |-> Complement(low, 32)]
    ELSE [negative |-> FALSE, magnitude |-> low])

\* x >>> 0 for the signed x
SignedToUint32(x) ==
  With(LowBits(x.magnitude, 32), LAMBDA low :
    IF x.negative /\ low # <<>> THEN Complement(low, 32) ELSE low)

\* The result computed from the (already stepped) state; the call returns
\* result / 4294967296.  `^` yields a signed 32-bit integer, which is then
\* multiplied as a double; word >>> 22 and word ^ ... work on ToUint32(word).
OutputOf(state) ==
  With(ToInt32(XorNat(ShiftRight(state, IntOf(ShiftRight(state, 28)) + 4), state)),
       LAMBDA x :
         With(SignedToUint32([negative |-> x.negative,
                              magnitude |-> RoundToDouble(MulNat(x.magnitude,
                                                                 PcgOutputMultiplier))]),
              LAMBDA word : XorNat(word, ShiftRight(word, 22))))

\* One call of context.random: the source's new state and the result r, for
\* the value r / 4294967296 of the call.  A seeded source is the closure of
\* createSeededRandom with its variable `state`; an unseeded one is
\* Math.random, whose values are the entropy the environment supplies.
\* `drawn` lists the results of the calls made so far.
Random(rng) ==
  IF rng.seeded
  THEN With(StepState(rng.state), LAMBDA state :
         [rng |-> [rng EXCEPT !.state = state, !.drawn = Append(@, OutputOf(state))],
          result |-> OutputOf(state)])
  ELSE [rng |-> [rng EXCEPT !.entropy = Tail(rng.entropy) \o <<Head(rng.entropy)>>,
                            !.drawn = Append(@, Head(rng.entropy))],
        result |-> Head(rng.entropy)]

\* u * total <= bound, for the draw u = result / 2^32
ScaledLeq(result, total, bound) ==
  LeqNat(MulNat(result, NatOf(total)), ShiftLeft(NatOf(bound), 32))

\* Math.floor(u * n), for the draw u = result / 2^32
ScaledFloor(result, n) == IntOf(ShiftRight(MulNat(result, NatOf(n)), 32))

(***************************************************************************)
(* Comparison operators of JavaScript on the values of the model           *)
(***************************************************************************)
\* the characters in the order of their character codes
CharOrder ==
  <<"\t", "\n", "\r", " ", "!", "\"", "#", "$", "%", "&", "'", "(", ")", "*", "+", ",",
    "-", ".", "/", "0", "1", "2", "3", "4", "5", "6", "7", "8", "9", ":", ";", "<", "=",
    ">", "?", "@", "A", "B", "C", "D", "E", "F", "G", "H", "I", "J", "K", "L", "M", "N",
    "O", "P", "Q", "R", "S", "T", "U", "V", "W", "X", "Y", "Z", "[", "]", "^", "_",
    "a", "b", "c", "d", "e", "f", "g", "h", "i", "j", "k", "l", "m", "n", "o", "p",
    "q", "r", "s", "t", "u", "v", "w", "x", "y", "z", "{", "|", "}", "~">>

CharRank(c) == CHOOSE i \in 1..Len(CharOrder) : CharOrder[i] = c

\* a < b for strings
RECURSIVE StringLess(_, _)
StringLess(a, b) ==
  IF b = <<>> THEN FALSE
  ELSE IF a = <<>> THEN TRUE
  ELSE IF Head(a) = Head(b) THEN StringLess(Tail(a), Tail(b))
  ELSE CharRank(Head(a)) < CharRank(Head(b))

\* ToPrimitive(v) before a numeric conversion
ToPrimitive(v) == IF v.t = "object" THEN Str(ToStr(v)) ELSE v

NumberLess(x, y) == x.t # "NaN" /\ y.t # "NaN" /\ x.n < y.n
NumberLessEq(x, y) == x.t # "NaN" /\ y.t # "NaN" /\ x.n <= y.n
NumberEquals(x, y) == x.t # "NaN" /\ y.t # "NaN" /\ x.n = y.n

\* a < b
JsLess(a, b) ==
  IF a.t \in {"string", "object"} /\ b.t \in {"string", "object"}
  THEN StringLess(ToStr(a), ToStr(b))
  ELSE NumberLess(ToNumber(ToPrimitive(a)), ToNumber(ToPrimitive(b)))

\* a <= b
JsLessEq(a, b) ==
  IF a.t \in {"string", "object"} /\ b.t \in {"string", "object"}
  THEN ~StringLess(ToStr(b), ToStr(a))
  ELSE NumberLessEq(ToNumber(ToPrimitive(a)), ToNumber(ToPrimitive(b)))

\* a == b
JsLooseEquals(a, b) ==
  IF a.t = "NaN" \/ b.t = "NaN" THEN FALSE
  ELSE IF a.t = b.t THEN a = b
  ELSE IF a.t \in {"null", "undefined"} \/ b.t \in {"null", "undefined"}
       THEN a.t \in {"null", "undefined"} /\ b.t \in {"null", "undefined"}
  ELSE IF a.t = "object" /\ b.t = "string" THEN ToStr(a) = b.s
  ELSE IF a.t = "string" /\ b.t = "object" THEN a.s = ToStr(b)
  ELSE NumberEquals(ToNumber(ToPrimitive(a)), ToNumber(ToPrimitive(b)))

(***************************************************************************)
(* Evaluation (ast/nodes.ts).  The ExecutionContext of the source holds a  *)
(* knowledge object, a variables Map that callees change in place, and the *)
(* random function, whose closure state every context shares.  Here a      *)
(* context holds the address of the knowledge object, the heap, the        *)
(* contents of the Map and the closure state; an evaluation returns its    *)
(* EvaluationResult (value, updatedKnowledge as the address k) together    *)
(* with what it left behind: the contents of the Map it was given (vars),  *)
(* the heap, the closure state, and the error thrown, if any.              *)
(***************************************************************************)
Context(knowledge, variables, heap, rng) ==
  [knowledge |-> knowledge, variables |-> variables, heap |-> heap, rng |-> rng]

Result(value, k, vars, heap, rng) ==
  [value |-> value, k |-> k, vars |-> vars, heap |-> heap, rng |-> rng, err |-> NoError]

Throw(err, k, vars, heap, rng) ==
  [value |-> Undefined, k |-> k, vars |-> vars, heap |-> heap, rng |-> rng, err |-> err]

\* for (const [key, value] of from.entries()) into.set(key, value)
CopyEntries(into, from) ==
  [x \in (DOMAIN into) \cup (DOMAIN from) |-> IF x \in DOMAIN from THEN from[x] ELSE into[x]]

\* typeof value === 'string' && !isNaN(Number(value)) && value.trim() !== ''
LooksNumeric(v) == v.t = "string" /\ ~IsNaNNumber(v) /\ Trim(v.s) # <<>>

\* /^[.,!?;:]/.test(valueStr)
StartsWithPunctuation(s) == s # <<>> /\ Head(s) \in {".", ",", "!", "?", ";", ":"}

\* The text accumulation of Alternative.evaluate: result after the element
\* value is appended
AppendValue(result, needsSpace, value) ==
  IF value.t \in {"null", "undefined"} \/ value = Str(<<>>) THEN result
  ELSE With(ToStr(value), LAMBDA valueStr :
         IF /\ needsSpace
            /\ valueStr # <<"\n">>
            /\ ~(valueStr # <<>> /\ Head(valueStr) = "\n")
            /\ result # <<>>
            /\ ~(result # <<>> /\ result[Len(result)] = "\n")
            /\ ~StartsWithPunctuation(valueStr)
         THEN result \o <<" ">> \o valueStr
         ELSE result \o valueStr)

\* typeof v === 'string' && !isNaN(Number(v)) ? Number(v) : v
NumericOperand(v) == IF v.t = "string" /\ ~IsNaNNumber(v) THEN ToNumber(v) ELSE v

\* BinaryExpression.applyOperator, with numLeft and numRight
ApplyOperatorTo(operator, left, right, numLeft, numRight) ==
  CASE operator = <<"+">> ->
         IF TypeOf(numLeft) = "number" /\ TypeOf(numRight) = "number"
         THEN JsAdd(numLeft, numRight)
         ELSE JsAdd(left, right)
    [] operator = <<"-">> -> JsSub(numLeft, numRight)
    [] operator = <<"*">> -> JsMul(numLeft, numRight)
    [] operator = <<"/">> -> JsDiv(numLeft, numRight)
    [] operator = <<"=", "=">> -> Bool(JsLooseEquals(left, right))
    [] operator = <<"!", "=">> -> Bool(~JsLooseEquals(left, right))
    [] operator = <<"<">> -> Bool(JsLess(left, right))
    [] operator = <<">">> -> Bool(JsLess(right, left))
    [] operator = <<"<", "=">> -> Bool(JsLessEq(left, right))
    [] operator = <<">", "=">> -> Bool(JsLessEq(right, left))

\* BinaryExpression.applyOperator
ApplyOperator(operator, left, right) ==
  ApplyOperatorTo(operator, left, right, NumericOperand(left), NumericOperand(right))

\* typeof raw === 'string' ? raw.trim() : raw
TrimOperand(raw) == IF raw.t = "string" THEN Str(Trim(raw.s)) ELSE raw

\* !isNaN(Number(value)) && value !== ''
IsNumericOperand(value) == ~IsNaNNumber(value) /\ value # Str(<<>>)

\* BinaryExpression.evaluate on the trimmed operands
BinaryValueOf(operator, leftValue, rightValue) ==
  IF IsNumericOperand(leftValue) /\ IsNumericOperand(rightValue)
  THEN ApplyOperator(operator, ToNumber(leftValue), ToNumber(rightValue))
  ELSE ApplyOperator(operator, leftValue, rightValue)

\* The operand clean-up of BinaryExpression.evaluate, then applyOperator
BinaryValue(operator, leftRaw, rightRaw) ==
  BinaryValueOf(operator, TrimOperand(leftRaw), TrimOperand(rightRaw))

\* item && typeof item === 'object' && key in item
ItemHas(heap, item, key) == item.t = "object" /\ HasProperty(heap[item.a], key)

WeightKey == <<"w", "e", "i", "g", "h", "t">>
ValueKey == <<"v", "a", "l", "u", "e">>

\* new Error(msg)
JsError(msg) == [name |-> "Error", msg |-> msg, arg |-> <<>>, cause |-> NoError]

\* a constructor that keeps every weight
WeightedItemUnchecked(value, weight) ==
  [item |-> Tree(ValueKey :> value
                 @@ WeightKey :> (IF weight = Undefined THEN Num(1) ELSE weight)),
   err |-> NoError]

\* new WeightedItem(value, weight): the item with its two properties, or the
\* Error thrown; an argument weight of undefined takes the default 1.0
WeightedItem(value, weight) ==
  IF NumberLessEq(IF weight = Undefined THEN Num(1) ELSE weight, Num(0))
  THEN [item |-> Undefined, err |-> JsError("Weight must be positive")]
  ELSE [item |-> Tree(ValueKey :> value
                      @@ WeightKey :> (IF weight = Undefined THEN Num(1) ELSE weight)),
        err |-> NoError]

\* every item weighing 1.0, whatever its weight property
UnitWeight(heap, item) == Num(1)

\* ('weight' in item) ? item.weight : 1.0
ItemWeight(heap, item) ==
  IF ItemHas(heap, item, WeightKey) THEN GetProperty(heap[item.a], WeightKey) ELSE Num(1)

\* ('value' in item) ? item.value : item
ItemValue(heap, item) ==
  IF ItemHas(heap, item, ValueKey) THEN GetProperty(heap[item.a], ValueKey) ELSE item

\* array.reduce((sum, item) => sum + weight(item), 0) over the first n items
RECURSIVE SumWeights(_, _, _)
SumWeights(heap, items, n) ==
  IF n = 0 THEN Num(0) ELSE JsAdd(SumWeights(heap, items, n - 1), ItemWeight(heap, items[n]))

\* random <= currentWeight, for random = (result / 2^32) * totalWeight; a
\* totalWeight or a currentWeight that is not a natural number compares false
WithinWeight(result, totalWeight, currentWeight) ==
  /\ totalWeight.t = "number" /\ totalWeight.n >= 0
  /\ currentWeight.t = "number" /\ currentWeight.n >= 0
  /\ ScaledLeq(result, totalWeight.n, currentWeight.n)

\* the least element of the set of indices hits, or none when it is empty
FirstOf(hits, none) == IF hits = {} THEN none ELSE CHOOSE i \in hits : \A j \in hits : i <= j

\* the index of the first item with random <= currentWeight, 0 when there is
\* none
FirstWithin(heap, items, result, totalWeight) ==
  FirstOf({i \in 1..Len(items) :
             WithinWeight(result, totalWeight, SumWeights(heap, items, i))}, 0)

\* Simple random selection
SelectSimple(items, ctx, draw) ==
  Result(ItemValue(ctx.heap, items[ScaledFloor(draw.result, Len(items)) + 1]),
         ctx.knowledge, ctx.variables, ctx.heap, draw.rng)

\* VariableReference.selectFromArray, for the array cell at address a
SelectFromArray(a, ctx) ==
  With(ctx.heap[a].items, LAMBDA items :
    IF Len(items) = 0
    THEN Result(Str(<<>>), ctx.knowledge, ctx.variables, ctx.heap, ctx.rng)
    ELSE With(Random(ctx.rng), LAMBDA draw :
           IF \E i \in 1..Len(items) : ItemHas(ctx.heap, items[i], WeightKey)
           THEN With(FirstWithin(ctx.heap, items, draw.result,
                                 SumWeights(ctx.heap, items, Len(items))),
                     LAMBDA chosen :
                       IF chosen # 0
                       THEN Result(ItemValue(ctx.heap, items[chosen]),
                                   ctx.knowledge, ctx.variables, ctx.heap, draw.rng)
                       ELSE SelectSimple(items, ctx, Random(draw.rng)))
           ELSE SelectSimple(items, ctx, draw)))

\* typeof current === 'object' ? Object.keys(current) : [], as a set
OwnKeys(heap, current) ==
  IF current.t # "object" THEN {}
  ELSE IF heap[current.a].isArray
  THEN {NatToString(j - 1) : j \in 1..Len(heap[current.a].items)}
  ELSE DOMAIN heap[current.a].props

\* the EvaluationError for a property that is not in `current`: part is the
\* property, at the parts resolved after $$, available the keys listed
PropertyNotFound(part, at, available) ==
  [name |-> "EvaluationError", msg |-> "Property '%' not found at %. Available: [%]",
   arg |-> part, at |-> at, available |-> available, cause |-> NoError]

\* The walk of evaluateKnowledgePath from `current` along pathParts[i..]
RECURSIVE WalkKnowledgePath(_, _, _, _)
WalkKnowledgePath(ctx, current, pathParts, i) ==
  IF i > Len(pathParts)
  THEN IF current.t = "object" /\ ctx.heap[current.a].isArray
       THEN SelectFromArray(current.a, ctx)
       ELSE Result(current, ctx.knowledge, ctx.variables, ctx.heap, ctx.rng)
  ELSE IF current.t \in {"null", "undefined"}
  THEN Throw(EvaluationError("Cannot access property '%' of %", pathParts[i]),
             ctx.knowledge, ctx.variables, ctx.heap, ctx.rng)
  ELSE IF current.t # "object" \/ ~HasProperty(ctx.heap[current.a], pathParts[i])
  THEN Throw(PropertyNotFound(pathParts[i], SubSeq(pathParts, 1, i - 1),
                              OwnKeys(ctx.heap, current)),
             ctx.knowledge, ctx.variables, ctx.heap, ctx.rng)
  ELSE WalkKnowledgePath(ctx, GetProperty(ctx.heap[current.a], pathParts[i]), pathParts, i + 1)

\* VariableReference.evaluateKnowledgePath
EvaluateKnowledgePath(node, ctx) ==
  IF node.path[1] # <<"$">>
  THEN Throw(EvaluationError("Expected '$$' but got '%'", node.path[1]),
             ctx.knowledge, ctx.variables, ctx.heap, ctx.rng)
  ELSE WalkKnowledgePath(ctx, ctx.knowledge, Tail(node.path), 1)

\* The dot-notation loop of evaluateVariable from `value` along path[i..]:
\* the value, or the error
RECURSIVE WalkVariablePath(_, _, _, _)
WalkVariablePath(heap, value, path, i) ==
  IF i > Len(path) THEN [value |-> value, err |-> NoError]
  ELSE IF value.t # "object"
  THEN [value |-> Undefined, err |-> EvaluationError("Cannot access property '%' of %", path[i])]
  ELSE WalkVariablePath(heap, GetProperty(heap[value.a], path[i]), path, i + 1)

\* VariableReference.toString
ReferenceToString(node) == IF node.isKnowledge THEN Tail(node.path) ELSE node.path

\* Number(value) when the string value looks numeric, else value
NumberIfNumeric(value) == IF LooksNumeric(value) THEN ToNumber(value) ELSE value

\* result.value.trim() when the result is a string
TrimResult(r) == IF r.err = NoError /\ r.value.t = "string" THEN [r EXCEPT !.value = Str(Trim(r.value.s))] ELSE r

\* A navigation that stays at the root: no part of the path is entered or
\* created
NavigateToRoot(heap, current, pathParts, i) ==
  [heap |-> heap, current |-> current, err |-> NoError]

\* The loop of assignToKnowledge that navigates to the parent of the target
\* property, from the cell `current` along pathParts[i..Len-1]; a missing
\* part is created as {}.  `in` on a value that is not an object is a
\* TypeError.
RECURSIVE NavigateToParent(_, _, _, _)
NavigateToParent(heap, current, pathParts, i) ==
  IF i > Len(pathParts) - 1 THEN [heap |-> heap, current |-> current, err |-> NoError]
  ELSE IF current.t # "object"
  THEN [heap |-> heap, current |-> current,
        err |-> TypeError("Cannot use 'in' operator to search for '%' in %")]
  ELSE IF ~HasProperty(heap[current.a], pathParts[i])
  THEN With(Alloc(heap, ObjectCell(EmptyMap)), LAMBDA fresh :
         NavigateToParent(HeapSet(fresh.heap, current.a, pathParts[i], Ref(fresh.a)),
                          Ref(fresh.a), pathParts, i + 1))
  ELSE NavigateToParent(heap, GetProperty(heap[current.a], pathParts[i]), pathParts, i + 1)

\* current[finalProp], for the parent `current` reached by the navigation
ReadFinal(heap, current, finalProp) ==
  IF current.t = "object" THEN GetProperty(heap[current.a], finalProp) ELSE Undefined

\* The value the switch of assignToKnowledge stores in current[finalProp]
StoredValue(operator, currentValue, value) ==
  CASE operator = <<"=">> -> NumericOperand(value)
    [] operator = <<"+", "=">> ->
         IF ~IsNaNNumber(currentValue) /\ ~IsNaNNumber(value)
         THEN JsAdd(ToNumber(currentValue), ToNumber(value))
         ELSE JsAdd(currentValue, value)
    [] operator = <<"-", "=">> -> JsSub(ToNumber(currentValue), ToNumber(value))

\* Assignment.assignToKnowledge
AssignToKnowledge(node, ctx, value) ==
  IF node.target.path[1] # <<"$">>
  THEN Throw(EvaluationError("Knowledge assignment must start with $$", <<>>),
             ctx.knowledge, ctx.variables, ctx.heap, ctx.rng)
  ELSE
  With(Tail(node.target.path), LAMBDA pathParts :
  With(JsonClone(ctx.heap, ctx.knowledge), LAMBDA newKnowledge :
  With(NavigateToParent(newKnowledge.heap, newKnowledge.value, pathParts, 1), LAMBDA nav :
    IF nav.err # NoError
    THEN Throw(nav.err, ctx.knowledge, ctx.variables, nav.heap, ctx.rng)
    ELSE IF nav.current.t \in {"null", "undefined"}
    THEN Throw(TypeError("Cannot read properties of %"),
               ctx.knowledge, ctx.variables, nav.heap, ctx.rng)
    ELSE
    With(pathParts[Len(pathParts)], LAMBDA finalProp :
    With(OrElse(ReadFinal(nav.heap, nav.current, finalProp), Num(0)), LAMBDA currentValue :
      IF /\ node.operator = <<"-", "=">>
         /\ ~(~IsNaNNumber(currentValue) /\ ~IsNaNNumber(value))
      THEN Throw(EvaluationError("Subtraction is only valid for numeric values", <<>>),
                 ctx.knowledge, ctx.variables, nav.heap, ctx.rng)
      ELSE IF nav.current.t # "object"
      THEN Throw(TypeError("Cannot create property '%' on %"),
                 ctx.knowledge, ctx.variables, nav.heap, ctx.rng)
      ELSE
      With(StoredValue(node.operator, currentValue, value), LAMBDA stored :
        Result(IF node.operator = <<"=">> THEN value ELSE stored,
               newKnowledge.value, ctx.variables,
               HeapSet(nav.heap, nav.current.a, finalProp, stored), ctx.rng)))))))

\* Assignment.assignToVariable
AssignToVariable(node, ctx, value) ==
  With(node.target.path[1], LAMBDA varName :
  With(OrElse(MapGet(ctx.variables, varName), Num(0)), LAMBDA currentValue :
  With(CASE node.operator = <<"=">> -> value
         [] node.operator = <<"+", "=">> -> JsAdd(currentValue, value)
         [] node.operator = <<"-", "=">> -> JsSub(currentValue, value),
       LAMBDA resultValue :
         Result(resultValue, ctx.knowledge, MapSet(ctx.variables, varName, resultValue),
                ctx.heap, ctx.rng))))

\* { ...a, ...b } for the objects at addresses a and b: a new object
SpreadMerge(heap, a, b) ==
  Alloc(heap, ObjectCell(CopyEntries(heap[a.a].props,
                                     IF b.t = "object" THEN heap[b.a].props ELSE EmptyMap)))

\* One step of the reduce of evaluateBranch over the values of a
\* CompoundExpression branch: the new accumulator, or the TypeError of
\* calling startsWith on a value that is not a string
CombineStep(acc, value) ==
  IF acc.s = <<>> THEN [acc |-> JsAdd(acc, value), err |-> NoError]
  ELSE IF acc.s[Len(acc.s)] = " " THEN [acc |-> JsAdd(acc, value), err |-> NoError]
  ELSE IF value.t # "string"
  THEN [acc |-> acc, err |-> TypeError("value.startsWith is not a function")]
  ELSE IF (value.s # <<>> /\ Head(value.s) = " ")
          \/ (value.s # <<>> /\ Head(value.s) \in {".", ",", "!", "?"})
  THEN [acc |-> JsAdd(acc, value), err |-> NoError]
  ELSE [acc |-> Str(acc.s \o <<" ">> \o value.s), err |-> NoError]

StartName == <<"s", "t", "a", "r", "t">>

RECURSIVE Evaluate(_, _, _)
RECURSIVE EvaluateRule(_, _, _)
RECURSIVE AlternativeLoop(_, _, _, _, _)
RECURSIVE CompoundLoop(_, _, _, _, _)
RECURSIVE BranchLoop(_, _, _, _, _)

\* a loop in which every element is evaluated against the knowledge the
\* alternative was given, not against the one the previous element returned
AlternativeLoopApart(g, ctx, elements, i, st) ==
  IF i > Len(elements)
  THEN Result(Str(st.result), st.knowledge, ctx.variables, st.heap, st.rng)
  ELSE With(Evaluate(g, elements[i], Context(ctx.knowledge, st.variables, st.heap, st.rng)),
            LAMBDA elementResult :
              IF elementResult.err # NoError
              THEN Throw(elementResult.err, elementResult.k, ctx.variables,
                         elementResult.heap, elementResult.rng)
              ELSE AlternativeLoop(g, ctx, elements, i + 1,
                     [result |-> AppendValue(st.result, st.needsSpace, elementResult.value),
                      needsSpace |-> \/ st.needsSpace
                                     \/ /\ elementResult.value.t \notin {"null", "undefined"}
                                        /\ elementResult.value # Str(<<>>),
                      knowledge |-> elementResult.k, variables |-> elementResult.vars,
                      heap |-> elementResult.heap, rng |-> elementResult.rng]))

\* Alternative.evaluate: the loop over elements[i..].  st holds the locals
\* result, needsSpace, currentKnowledge, and the contents of currentVariables
\* (the copy made on entry); the Map of the caller's context is not written.
AlternativeLoop(g, ctx, elements, i, st) ==
  IF i > Len(elements)
  THEN Result(Str(st.result), st.knowledge, ctx.variables, st.heap, st.rng)
  ELSE With(Evaluate(g, elements[i], Context(st.knowledge, st.variables, st.heap, st.rng)),
            LAMBDA elementResult :
              IF elementResult.err # NoError
              THEN Throw(elementResult.err, elementResult.k, ctx.variables,
                         elementResult.heap, elementResult.rng)
              ELSE AlternativeLoop(g, ctx, elements, i + 1,
                     [result |-> AppendValue(st.result, st.needsSpace, elementResult.value),
                      needsSpace |-> \/ st.needsSpace
                                     \/ /\ elementResult.value.t \notin {"null", "undefined"}
                                        /\ elementResult.value # Str(<<>>),
                      knowledge |-> elementResult.k, variables |-> elementResult.vars,
                      heap |-> elementResult.heap, rng |-> elementResult.rng]))

\* an alternative of one element that returns the value of the element as it
\* is, not the string built from it
EvaluateAlternativeRaw(g, alt, ctx) ==
  IF Len(alt.elements) = 1 THEN Evaluate(g, alt.elements[1], ctx)
  ELSE AlternativeLoop(g, ctx, alt.elements, 1,
         [result |-> <<>>, needsSpace |-> FALSE, knowledge |-> ctx.knowledge,
          variables |-> ctx.variables, heap |-> ctx.heap, rng |-> ctx.rng])

EvaluateAlternative(g, alt, ctx) ==
  AlternativeLoop(g, ctx, alt.elements, 1,
    [result |-> <<>>, needsSpace |-> FALSE, knowledge |-> ctx.knowledge,
     variables |-> ctx.variables, heap |-> ctx.heap, rng |-> ctx.rng])

\* the sum of the weights of the first n alternatives
RECURSIVE SumAlternativeWeights(_, _)
SumAlternativeWeights(alternatives, n) ==
  IF n = 0 THEN 0 ELSE SumAlternativeWeights(alternatives, n - 1) + alternatives[n].weight

\* the first alternative with random < currentWeight, else the last
SelectedBelow(alternatives, result) ==
  FirstOf({i \in 1..Len(alternatives) :
             LeqNat(AddNat(MulNat(result,
                                  NatOf(SumAlternativeWeights(alternatives, Len(alternatives)))),
                           NatOf(1)),
                    ShiftLeft(NatOf(SumAlternativeWeights(alternatives, i)), 32))},
          Len(alternatives))

\* The alternative selectWeightedAlternative picks for the draw: the first
\* with random <= currentWeight, else the last
SelectedAlternative(alternatives, result) ==
  FirstOf({i \in 1..Len(alternatives) :
             ScaledLeq(result, SumAlternativeWeights(alternatives, Len(alternatives)),
                       SumAlternativeWeights(alternatives, i))},
          Len(alternatives))

\* Rule.selectWeightedAlternative: the chosen alternative is evaluated on a
\* copy of the caller's Map (altContext.variables), and the entries of that
\* copy are then set in the caller's Map
SelectWeightedAlternative(g, rule, ctx) ==
  With(Random(ctx.rng), LAMBDA draw :
    With(EvaluateAlternative(g,
           rule.alternatives[SelectedAlternative(rule.alternatives, draw.result)],
           Context(ctx.knowledge, ctx.variables, ctx.heap, draw.rng)),
         LAMBDA result :
           IF result.err # NoError THEN result
           ELSE [result EXCEPT !.vars = CopyEntries(ctx.variables, result.vars)]))

\* a rule that selects by a draw even when it has one alternative
EvaluateRuleDrawing(g, rule, ctx) ==
  IF Len(rule.alternatives) = 0
  THEN Throw(EvaluationError("Rule % has no alternatives", rule.name),
             ctx.knowledge, ctx.variables, ctx.heap, ctx.rng)
  ELSE SelectWeightedAlternative(g, rule, ctx)

\* Rule.evaluate
EvaluateRule(g, rule, ctx) ==
  IF Len(rule.alternatives) = 0
  THEN Throw(EvaluationError("Rule % has no alternatives", rule.name),
             ctx.knowledge, ctx.variables, ctx.heap, ctx.rng)
  ELSE IF Len(rule.alternatives) = 1 THEN EvaluateAlternative(g, rule.alternatives[1], ctx)
  ELSE SelectWeightedAlternative(g, rule, ctx)

\* VariableReference.evaluateVariable
EvaluateVariable(g, node, ctx) ==
  With(node.path[1], LAMBDA varName :
    IF varName \in DOMAIN ctx.variables
    THEN With(WalkVariablePath(ctx.heap, ctx.variables[varName], node.path, 2),
              LAMBDA walked :
                IF walked.err # NoError
                THEN Throw(walked.err, ctx.knowledge, ctx.variables, ctx.heap, ctx.rng)
                ELSE Result(NumberIfNumeric(walked.value), ctx.knowledge, ctx.variables,
                            ctx.heap, ctx.rng))
    ELSE IF Len(node.path) = 1 /\ varName \in DOMAIN g
    THEN TrimResult(EvaluateRule(g, g[varName], ctx))
    ELSE Throw(EvaluationError("Variable or rule '%' not defined", varName),
               ctx.knowledge, ctx.variables, ctx.heap, ctx.rng))

\* VariableReference.evaluate: whatever is thrown is wrapped
EvaluateVariableReference(g, node, ctx) ==
  With(IF node.isKnowledge THEN EvaluateKnowledgePath(node, ctx)
       ELSE EvaluateVariable(g, node, ctx),
       LAMBDA result :
         IF result.err = NoError THEN result
         ELSE [result EXCEPT
                 !.err = WrappedEvaluationError("Failed to resolve variable %: %",
                                                ReferenceToString(node), result.err)])

\* a rule reference that looks for the rule before the variable
EvaluateRuleFirst(g, node, ctx) ==
  IF node.ruleName \in DOMAIN g
  THEN TrimResult(EvaluateRule(g, g[node.ruleName], ctx))
  ELSE IF node.ruleName \in DOMAIN ctx.variables
  THEN Result(NumberIfNumeric(ctx.variables[node.ruleName]), ctx.knowledge, ctx.variables,
              ctx.heap, ctx.rng)
  ELSE Throw(EvaluationError("Rule '%' not found", node.ruleName),
             ctx.knowledge, ctx.variables, ctx.heap, ctx.rng)

\* RuleReference.evaluate
EvaluateRuleReference(g, node, ctx) ==
  IF node.ruleName \in DOMAIN ctx.variables
  THEN Result(NumberIfNumeric(ctx.variables[node.ruleName]), ctx.knowledge, ctx.variables,
              ctx.heap, ctx.rng)
  ELSE IF node.ruleName \notin DOMAIN g
  THEN Throw(EvaluationError("Rule '%' not found", node.ruleName),
             ctx.knowledge, ctx.variables, ctx.heap, ctx.rng)
  ELSE TrimResult(EvaluateRule(g, g[node.ruleName], ctx))

\* Assignment.evaluate
EvaluateAssignment(g, node, ctx) ==
  With(Evaluate(g, node.expression, ctx), LAMBDA valueResult :
    IF valueResult.err # NoError THEN valueResult
    ELSE With(Context(valueResult.k, valueResult.vars, valueResult.heap, valueResult.rng),
              LAMBDA newContext :
                IF node.target.isKnowledge
                THEN AssignToKnowledge(node, newContext, valueResult.value)
                ELSE AssignToVariable(node, newContext, valueResult.value)))

\* BinaryExpression.evaluate
EvaluateBinaryExpression(g, node, ctx) ==
  With(Evaluate(g, node.left, ctx), LAMBDA leftResult :
    IF leftResult.err # NoError THEN leftResult
    ELSE With(Evaluate(g, node.right,
                       Context(leftResult.k, leftResult.vars, leftResult.heap,
                               leftResult.rng)),
              LAMBDA rightResult :
                IF rightResult.err # NoError THEN rightResult
                ELSE [rightResult EXCEPT
                        !.value = BinaryValue(node.operator, leftResult.value,
                                              rightResult.value)]))

\* a loop in which every expression starts from the variables of the caller's
\* context, not from those the previous expression left
RECURSIVE CompoundLoopApart(_, _, _, _, _)
CompoundLoopApart(g, ctx, expressions, i, st) ==
  IF i > Len(expressions)
  THEN Result(st.lastValue, st.knowledge, st.parent, st.heap, st.rng)
  ELSE With(Evaluate(g, expressions[i],
                     Context(st.knowledge, ctx.variables, st.heap, st.rng)),
            LAMBDA result :
              IF result.err # NoError
              THEN Throw(result.err, result.k, st.parent, result.heap, result.rng)
              ELSE CompoundLoopApart(g, ctx, expressions, i + 1,
                     [knowledge |-> result.k, lastValue |-> result.value,
                      variables |-> result.vars,
                      parent |-> CopyEntries(st.parent, result.vars),
                      heap |-> result.heap, rng |-> result.rng]))

\* CompoundExpression.evaluate: the loop over expressions[i..].  st holds
\* currentKnowledge, lastValue, the contents of currentVariables (the copy made
\* on entry) and of the Map of the caller's context, which receives every
\* entry of the copy after each expression.
CompoundLoop(g, ctx, expressions, i, st) ==
  IF i > Len(expressions)
  THEN Result(st.lastValue, st.knowledge, st.parent, st.heap, st.rng)
  ELSE With(Evaluate(g, expressions[i],
                     Context(st.knowledge, st.variables, st.heap, st.rng)),
            LAMBDA result :
              IF result.err # NoError
              THEN Throw(result.err, result.k, st.parent, result.heap, result.rng)
              ELSE CompoundLoop(g, ctx, expressions, i + 1,
                     [knowledge |-> result.k, lastValue |-> result.value,
                      variables |-> result.vars,
                      parent |-> CopyEntries(st.parent, result.vars),
                      heap |-> result.heap, rng |-> result.rng]))

EvaluateCompoundExpression(g, node, ctx) ==
  CompoundLoop(g, ctx, node.expressions, 1,
    [knowledge |-> ctx.knowledge, lastValue |-> Str(<<>>), variables |-> ctx.variables,
     parent |-> ctx.variables, heap |-> ctx.heap, rng |-> ctx.rng])

\* The reduce over the values of a CompoundExpression branch
RECURSIVE CombineValues(_, _)
CombineValues(values, n) ==
  IF n = 0 THEN [acc |-> Str(<<>>), err |-> NoError]
  ELSE With(CombineValues(values, n - 1), LAMBDA before :
         IF before.err # NoError THEN before ELSE CombineStep(before.acc, values[n]))

\* results.reduce((acc, res) => ({ ...acc, ...res.updatedKnowledge }), knowledge)
RECURSIVE MergeKnowledge(_, _, _, _)
MergeKnowledge(heap, acc, ks, i) ==
  IF i > Len(ks) THEN [heap |-> heap, value |-> acc]
  ELSE With(SpreadMerge(heap, acc, ks[i]), LAMBDA merged :
         MergeKnowledge(merged.heap, Ref(merged.a), ks, i + 1))

\* evaluateBranch for a CompoundExpression branch: every expression is
\* evaluated in the same context (st collects the values and the knowledge
\* objects returned), then the values are combined and the knowledge merged
BranchLoop(g, ctx, expressions, i, st) ==
  IF i > Len(expressions)
  THEN With(CombineValues(st.values, Len(st.values)), LAMBDA combined :
         IF combined.err # NoError
         THEN Throw(combined.err, ctx.knowledge, st.variables, st.heap, st.rng)
         ELSE With(MergeKnowledge(st.heap, ctx.knowledge, st.ks, 1), LAMBDA merged :
                Result(combined.acc, merged.value, st.variables, merged.heap, st.rng)))
  ELSE With(Evaluate(g, expressions[i],
                     Context(ctx.knowledge, st.variables, st.heap, st.rng)),
            LAMBDA result :
              IF result.err # NoError THEN result
              ELSE BranchLoop(g, ctx, expressions, i + 1,
                     [values |-> Append(st.values, result.value),
                      ks |-> Append(st.ks, result.k),
                      variables |-> result.vars, heap |-> result.heap,
                      rng |-> result.rng]))

\* ConditionalExpression.evaluateBranch
EvaluateBranch(g, branch, ctx) ==
  IF branch.k = "CompoundExpression"
  THEN BranchLoop(g, ctx, branch.expressions, 1,
         [values |-> <<>>, ks |-> <<>>, variables |-> ctx.variables,
          heap |-> ctx.heap, rng |-> ctx.rng])
  ELSE Evaluate(g, branch, ctx)

\* a conditional that takes its true branch whatever the condition gives
EvaluateTrueBranch(g, node, ctx) ==
  With(Evaluate(g, node.condition, ctx), LAMBDA conditionResult :
    IF conditionResult.err # NoError THEN conditionResult
    ELSE EvaluateBranch(g, node.trueValue,
           Context(conditionResult.k, conditionResult.vars, conditionResult.heap,
                   conditionResult.rng)))

\* ConditionalExpression.evaluate
EvaluateConditionalExpression(g, node, ctx) ==
  With(Evaluate(g, node.condition, ctx), LAMBDA conditionResult :
    IF conditionResult.err # NoError THEN conditionResult
    ELSE IF Truthy(conditionResult.value) \/ node.falseValue # NoNode
    THEN EvaluateBranch(g,
           IF Truthy(conditionResult.value) THEN node.trueValue ELSE node.falseValue,
           Context(conditionResult.k, conditionResult.vars, conditionResult.heap,
                   conditionResult.rng))
    ELSE [conditionResult EXCEPT !.value = Str(<<>>)])

\* a silent expression that contributes the empty string without evaluating
\* its expression
SkipSilentExpression(g, node, ctx) ==
  Result(Str(<<>>), ctx.knowledge, ctx.variables, ctx.heap, ctx.rng)

\* SilentExpression.evaluate
EvaluateSilentExpression(g, node, ctx) ==
  With(Evaluate(g, node.expression, ctx), LAMBDA result :
    IF result.err # NoError THEN result ELSE [result EXCEPT !.value = Str(<<>>)])

\* ASTNode.evaluate, by the class of the node
Evaluate(g, node, ctx) ==
  CASE node.k = "Literal" ->
         Result(node.value, ctx.knowledge, ctx.variables, ctx.heap, ctx.rng)
    [] node.k = "RuleReference" -> EvaluateRuleReference(g, node, ctx)
    [] node.k = "VariableReference" -> EvaluateVariableReference(g, node, ctx)
    [] node.k = "Assignment" -> EvaluateAssignment(g, node, ctx)
    [] node.k = "BinaryExpression" -> EvaluateBinaryExpression(g, node, ctx)
    [] node.k = "ConditionalExpression" -> EvaluateConditionalExpression(g, node, ctx)
    [] node.k = "SilentExpression" -> EvaluateSilentExpression(g, node, ctx)
    [] node.k = "CompoundExpression" -> EvaluateCompoundExpression(g, node, ctx)

\* a grammar that evaluates its rule start, or any of its rules when it has
\* no rule start
EvaluateAnyRule(g, ctx) ==
  EvaluateRule(g,
               g[IF StartName \in DOMAIN g THEN StartName ELSE CHOOSE name \in DOMAIN g : TRUE],
               ctx)

\* Grammar.evaluate, for the rules g of the grammar
EvaluateGrammar(g, ctx) ==
  IF StartName \notin DOMAIN g
  THEN Throw(EvaluationError("No start rule defined", <<>>),
             ctx.knowledge, ctx.variables, ctx.heap, ctx.rng)
  ELSE With(EvaluateRule(g, g[StartName], ctx), LAMBDA result :
         IF result.err = NoError /\ TypeOf(result.value) = "number"
         THEN [result EXCEPT !.value = Str(ToStr(result.value))]
         ELSE result)

(***************************************************************************)
(* Lexer (parser/lexer.ts).  `pos` is Lexer.position (0-based); the line   *)
(* and column of a position are those the lexer has counted there.         *)
(***************************************************************************)
LexerIsAtEnd(input, pos) == pos >= Len(input)

\* peek(): "\0" at the end is modelled as the empty string
LexerPeek(input, pos) == IF LexerIsAtEnd(input, pos) THEN "" ELSE input[pos + 1]

LexerPeekNext(input, pos) == IF pos + 1 >= Len(input) THEN "" ELSE input[pos + 2]

IsDigit(c) == IsDigitChar(c)

IsAlpha(c) ==
  c \in {"a", "b", "c", "d", "e", "f", "g", "h", "i", "j", "k", "l", "m", "n", "o", "p", "q",
         "r", "s", "t", "u", "v", "w", "x", "y", "z", "A", "B", "C", "D", "E", "F", "G", "H",
         "I", "J", "K", "L", "M", "N", "O", "P", "Q", "R", "S", "T", "U", "V", "W", "X", "Y",
         "Z", "_"}

IsAlphaNumeric(c) == IsAlpha(c) \/ IsDigit(c)

\* the position after the comment that starts at pos
RECURSIVE SkipComment(_, _)
SkipComment(input, pos) ==
  IF ~LexerIsAtEnd(input, pos) /\ LexerPeek(input, pos) # "\n"
  THEN SkipComment(input, pos + 1) ELSE pos

RECURSIVE SkipWhitespace(_, _)
SkipWhitespace(input, pos) ==
  IF LexerIsAtEnd(input, pos) THEN pos
  ELSE IF LexerPeek(input, pos) \in {" ", "\r", "\t"} THEN SkipWhitespace(input, pos + 1)
  ELSE IF LexerPeek(input, pos) = "#" THEN SkipWhitespace(input, SkipComment(input, pos))
  ELSE pos

\* the position after the run of characters satisfying isDigit from pos
RECURSIVE SkipDigits(_, _)
SkipDigits(input, pos) ==
  IF ~LexerIsAtEnd(input, pos) /\ IsDigit(LexerPeek(input, pos))
  THEN SkipDigits(input, pos + 1) ELSE pos

RECURSIVE SkipAlphaNumeric(_, _)
SkipAlphaNumeric(input, pos) ==
  IF ~LexerIsAtEnd(input, pos) /\ IsAlphaNumeric(LexerPeek(input, pos))
  THEN SkipAlphaNumeric(input, pos + 1) ELSE pos

\* Lexer.line and Lexer.column when Lexer.position is pos: advance and match
\* are what moves the position, and they count a line for every "\n" passed
\* and a column for every other character
LineAt(input, pos) == 1 + Cardinality({i \in 1..pos : input[i] = "\n"})

\* the number of characters up to the last "\n" among the first pos
LastNewline(input, pos) ==
  IF \E i \in 1..pos : input[i] = "\n"
  THEN CHOOSE i \in 1..pos : input[i] = "\n" /\ \A j \in (i + 1)..pos : input[j] # "\n"
  ELSE 0

ColumnAt(input, pos) == 1 + pos - LastNewline(input, pos)

\* what nextToken read: the type and value of the token, the new position
LexOk(type, value, pos) == [type |-> type, value |-> value, pos |-> pos, err |-> NoError]

\* throw new ParseError(msg, startLine, startColumn) for the token that
\* starts at position start
LexFail(input, msg, start, pos) ==
  [type |-> "EOF", value |-> <<>>, pos |-> pos,
   err |-> ParseError(msg, LineAt(input, start), ColumnAt(input, start))]

\* Lexer.number, from the position of the first digit
LexNumber(input, start) ==
  LET int == SkipDigits(input, start)
      stop == IF ~LexerIsAtEnd(input, int) /\ LexerPeek(input, int) = "."
                 /\ IsDigit(LexerPeekNext(input, int))
              THEN SkipDigits(input, int + 1) ELSE int
  IN LexOk("NUMBER", SubSeq(input, start + 1, stop), stop)

\* Lexer.identifier, from the position of the first character
LexIdentifier(input, start) ==
  LET stop == SkipAlphaNumeric(input, start)
  IN LexOk("IDENTIFIER", SubSeq(input, start + 1, stop), stop)

\* the outcome of a loop that never ends
NoReturn == [name |-> "no return"]

\* Lexer.string: the loop from pos with the value read so far.  On a newline
\* the loop counts the line and does not advance, so it never ends.
RECURSIVE LexString(_, _, _, _, _)
LexString(input, quote, start, pos, value) ==
  IF LexerIsAtEnd(input, pos)
  THEN LexFail(input, "Unterminated string", start, pos)
  ELSE IF LexerPeek(input, pos) = quote THEN LexOk("STRING", value, pos + 1)
  ELSE IF LexerPeek(input, pos) = "\n"
  THEN [type |-> "EOF", value |-> <<>>, pos |-> pos, err |-> NoReturn]
  ELSE IF LexerPeek(input, pos) = "\\"
  THEN LET escaped == LexerPeek(input, pos + 1)
           char == CASE escaped = "n" -> <<"\n">>
                     [] escaped = "t" -> <<"\t">>
                     [] escaped = "r" -> <<"\r">>
                     [] escaped = "" -> <<"\\0">>
                     [] OTHER -> <<escaped>>
       IN LexString(input, quote, start, IF pos + 2 > Len(input) THEN Len(input) ELSE pos + 2,
                    value \o char)
  ELSE LexString(input, quote, start, pos + 1, Append(value, LexerPeek(input, pos)))

\* the token types of the characters that are a token alone
SingleCharType ==
  [c \in {"\n", "(", ")", "[", "]", ".", ",", "|", "?", ";", "$", "*", "/"} |->
     CASE c = "\n" -> "NEWLINE" [] c = "(" -> "LPAREN" [] c = ")" -> "RPAREN"
       [] c = "[" -> "LBRACKET" [] c = "]" -> "RBRACKET" [] c = "." -> "DOT"
       [] c = "," -> "COMMA" [] c = "|" -> "PIPE" [] c = "?" -> "QUESTION"
       [] c = ";" -> "SEMICOLON" [] c = "$" -> "DOLLAR" [] c = "*" -> "MULTIPLY"
       [] c = "/" -> "DIVIDE"]

\* the token types of the characters that may be followed by =: alone, with =
EqualsPairType ==
  [c \in {"+", "-", "=", "!", "<", ">", ":"} |->
     CASE c = "+" -> <<"PLUS", "PLUS_ASSIGN">> [] c = "-" -> <<"MINUS", "MINUS_ASSIGN">>
       [] c = "=" -> <<"ASSIGN", "EQUALS">> [] c = "!" -> <<"EXCLAMATION", "NOT_EQUALS">>
       [] c = "<" -> <<"LESS_THAN", "LESS_EQUAL">> [] c = ">" -> <<"GREATER_THAN", "GREATER_EQUAL">>
       [] c = ":" -> <<"COLON", "ASSIGN_OP">>]

\* Lexer.nextToken at pos (not at the end)
NextToken(input, pos) ==
  LET char == input[pos + 1]
      next == LexerPeek(input, pos + 1)
  IN IF char \in DOMAIN SingleCharType THEN LexOk(SingleCharType[char], <<char>>, pos + 1)
     ELSE IF char \in DOMAIN EqualsPairType
     THEN IF next = "=" THEN LexOk(EqualsPairType[char][2], <<char, "=">>, pos + 2)
          ELSE IF char = ":" /\ next = ":" THEN LexOk("DOUBLE_COLON", <<":", ":">>, pos + 2)
          ELSE LexOk(EqualsPairType[char][1], <<char>>, pos + 1)
     ELSE IF char \in {"\"", "'"} THEN LexString(input, char, pos, pos + 1, <<>>)
     ELSE IF IsDigit(char) THEN LexNumber(input, pos)
     ELSE IF IsAlpha(char) THEN LexIdentifier(input, pos)
     ELSE LexFail(input, "Unexpected character '%'", pos, pos + 1)

\* The loop of Lexer.tokenize
RECURSIVE TokenizeLoop(_, _, _)
TokenizeLoop(input, pos, tokens) ==
  With(SkipWhitespace(input, pos), LAMBDA at :
    IF LexerIsAtEnd(input, at)
    THEN [tokens |-> Append(tokens, Tok("EOF", <<>>, LineAt(input, at), ColumnAt(input, at))),
          err |-> NoError]
    ELSE With(NextToken(input, at), LAMBDA token :
           IF token.err # NoError THEN [tokens |-> tokens, err |-> token.err]
           ELSE TokenizeLoop(input, token.pos,
                             Append(tokens, Tok(token.type, token.value,
                                                LineAt(input, at), ColumnAt(input, at))))))

Tokenize(input) == TokenizeLoop(input, 0, <<>>)

(***************************************************************************)
(* Inputs: grammar sources, knowledge objects, seeds, entropy              *)
(***************************************************************************)
\* $start := hello world | hi there :: 2 | hey
GreetingGrammar ==
  <<"$", "s", "t", "a", "r", "t", " ", ":", "=", " ", "h", "e", "l", "l", "o", " ", "w",
    "o", "r", "l", "d", " ", "|", " ", "h", "i", " ", "t", "h", "e", "r", "e", " ", ":",
    ":", " ", "2", " ", "|", " ", "h", "e", "y">>

\* $sub := [!$x = 5]
\* $start := $sub $x
SubRuleGrammar ==
  <<"$", "s", "u", "b", " ", ":", "=", " ", "[", "!", "$", "x", " ", "=", " ", "5", "]",
    "\n", "$", "s", "t", "a", "r", "t", " ", ":", "=", " ", "$", "s", "u", "b", " ", "$",
    "x">>

\* $sub := [!$x = 5] a | [!$x = 5] b
\* $start := $sub $x
SubRuleChoiceGrammar ==
  <<"$", "s", "u", "b", " ", ":", "=", " ", "[", "!", "$", "x", " ", "=", " ", "5", "]",
    " ", "a", " ", "|", " ", "[", "!", "$", "x", " ", "=", " ", "5", "]", " ", "b", "\n",
    "$", "s", "t", "a", "r", "t", " ", ":", "=", " ", "$", "s", "u", "b", " ", "$", "x">>

\* $start := $missing
MissingGrammar ==
  <<"$", "s", "t", "a", "r", "t", " ", ":", "=", " ", "$", "m", "i", "s", "s", "i", "n",
    "g">>

\* $start := [$n += 1]
CounterGrammar ==
  <<"$", "s", "t", "a", "r", "t", " ", ":", "=", " ", "[", "$", "n", " ", "+", "=", " ",
    "1", "]">>

\* $start := [!$a = 10] [$a += 5]
VariableAddGrammar ==
  <<"$", "s", "t", "a", "r", "t", " ", ":", "=", " ", "[", "!", "$", "a", " ", "=", " ",
    "1", "0", "]", " ", "[", "$", "a", " ", "+", "=", " ", "5", "]">>

\* $start := [$$.hp += 5]
KnowledgeAddGrammar ==
  <<"$", "s", "t", "a", "r", "t", " ", ":", "=", " ", "[", "$", "$", ".", "h", "p", " ",
    "+", "=", " ", "5", "]">>

\* $start := [!$x = abc] [$x -= 1]
VariableSubtractGrammar ==
  <<"$", "s", "t", "a", "r", "t", " ", ":", "=", " ", "[", "!", "$", "x", " ", "=", " ",
    "a", "b", "c", "]", " ", "[", "$", "x", " ", "-", "=", " ", "1", "]">>

\* $start := [$$.player.name -= 1]
KnowledgeSubtractGrammar ==
  <<"$", "s", "t", "a", "r", "t", " ", ":", "=", " ", "[", "$", "$", ".", "p", "l", "a",
    "y", "e", "r", ".", "n", "a", "m", "e", " ", "-", "=", " ", "1", "]">>

\* $start := [$$.player.stats.hp = 100]
NestedAssignGrammar ==
  <<"$", "s", "t", "a", "r", "t", " ", ":", "=", " ", "[", "$", "$", ".", "p", "l", "a",
    "y", "e", "r", ".", "s", "t", "a", "t", "s", ".", "h", "p", " ", "=", " ", "1", "0",
    "0", "]">>

\* $start := $$.player.stats.hp += 10
UnbracketedGrammar ==
  <<"$", "s", "t", "a", "r", "t", " ", ":", "=", " ", "$", "$", ".", "p", "l", "a", "y",
    "e", "r", ".", "s", "t", "a", "t", "s", ".", "h", "p", " ", "+", "=", " ", "1", "0">>

\* $start := [!$$.player.stats.hp += 10] $missing
WriteThenFailGrammar ==
  <<"$", "s", "t", "a", "r", "t", " ", ":", "=", " ", "[", "!", "$", "$", ".", "p", "l",
    "a", "y", "e", "r", ".", "s", "t", "a", "t", "s", ".", "h", "p", " ", "+", "=", " ",
    "1", "0", "]", " ", "$", "m", "i", "s", "s", "i", "n", "g">>

\* $start := [!$$.x = abc * 2]
NaNGrammar ==
  <<"$", "s", "t", "a", "r", "t", " ", ":", "=", " ", "[", "!", "$", "$", ".", "x", " ",
    "=", " ", "a", "b", "c", " ", "*", " ", "2", "]">>

\* $start := $$.items
ItemsGrammar ==
  <<"$", "s", "t", "a", "r", "t", " ", ":", "=", " ", "$", "$", ".", "i", "t", "e", "m",
    "s">>

Grammars ==
  {GreetingGrammar,
   SubRuleGrammar,
   SubRuleChoiceGrammar,
   MissingGrammar,
   CounterGrammar,
   VariableAddGrammar,
   KnowledgeAddGrammar,
   VariableSubtractGrammar,
   KnowledgeSubtractGrammar,
   NestedAssignGrammar,
   UnbracketedGrammar,
   WriteThenFailGrammar,
   NaNGrammar,
   ItemsGrammar}

\* $start := [$$.hp ? well protected]
MultiWordBranchGrammar ==
  <<"$", "s", "t", "a", "r", "t", " ", ":", "=", " ", "[", "$", "$", ".", "h", "p",
    " ", "?", " ", "w", "e", "l", "l", " ", "p", "r", "o", "t", "e", "c", "t", "e",
    "d", "]">>

\* $start := [$$.hp > 200 ? yes]
NoElseGrammar ==
  <<"$", "s", "t", "a", "r", "t", " ", ":", "=", " ", "[", "$", "$", ".", "h", "p",
    " ", ">", " ", "2", "0", "0", " ", "?", " ", "y", "e", "s", "]">>

\* $start := [10 + 5 * 2]
PrecedenceGrammar ==
  <<"$", "s", "t", "a", "r", "t", " ", ":", "=", " ", "[", "1", "0", " ", "+", " ",
    "5", " ", "*", " ", "2", "]">>

\* $start := [$r = 8 - 6 / 2 > 4]
PrecedenceLevelsGrammar ==
  <<"$", "s", "t", "a", "r", "t", " ", ":", "=", " ", "[", "$", "r", " ", "=", " ",
    "8", " ", "-", " ", "6", " ", "/", " ", "2", " ", ">", " ", "4", "]">>

\* $start := a | b :: 2 | c :: 3
WeightedGrammar ==
  <<"$", "s", "t", "a", "r", "t", " ", ":", "=", " ", "a", " ", "|", " ", "b", " ",
    ":", ":", " ", "2", " ", "|", " ", "c", " ", ":", ":", " ", "3">>

\* $start := a :: 0 | b
ZeroWeightGrammar ==
  <<"$", "s", "t", "a", "r", "t", " ", ":", "=", " ", "a", " ", ":", ":", " ", "0",
    " ", "|", " ", "b">>

\* $start := $$.loot
LootGrammar ==
  <<"$", "s", "t", "a", "r", "t", " ", ":", "=", " ", "$", "$", ".", "l", "o", "o",
    "t">>

\* $start := $$.empty
EmptyArrayGrammar ==
  <<"$", "s", "t", "a", "r", "t", " ", ":", "=", " ", "$", "$", ".", "e", "m", "p",
    "t", "y">>

\* $a := b
\* $start := "cd
UnterminatedGrammar ==
  <<"$", "a", " ", ":", "=", " ", "b", "\n", "$", "s", "t", "a", "r", "t", " ", ":",
    "=", " ", "\"", "c", "d">>

\* $start := "a   followed by a line end
UnterminatedLineGrammar ==
  <<"$", "s", "t", "a", "r", "t", " ", ":", "=", " ", "\"", "a", "\n">>

\* $start := a
\* @
UnexpectedCharGrammar ==
  <<"$", "s", "t", "a", "r", "t", " ", ":", "=", " ", "a", "\n", "@">>

\* an empty line, then: start := a
NoDollarGrammar ==
  <<"\n", "s", "t", "a", "r", "t", " ", ":", "=", " ", "a">>

\* $start Hello World
NoAssignGrammar ==
  <<"$", "s", "t", "a", "r", "t", " ", "H", "e", "l", "l", "o", " ", "W", "o", "r",
    "l", "d">>

\* $start := [a
NoBracketGrammar ==
  <<"$", "s", "t", "a", "r", "t", " ", ":", "=", " ", "[", "a">>

\* $start := [(a]
NoParenGrammar ==
  <<"$", "s", "t", "a", "r", "t", " ", ":", "=", " ", "[", "(", "a", "]">>

\* $start := $|a
NoIdentifierGrammar ==
  <<"$", "s", "t", "a", "r", "t", " ", ":", "=", " ", "$", "|", "a">>

\* $start := $$.hp.
NoPropertyGrammar ==
  <<"$", "s", "t", "a", "r", "t", " ", ":", "=", " ", "$", "$", ".", "h", "p", ".">>

\* $start := a |
EmptyAlternativeGrammar ==
  <<"$", "s", "t", "a", "r", "t", " ", ":", "=", " ", "a", " ", "|">>

\* an empty line
NoRulesGrammar ==
  <<"\n">>

\* $start x
\* $b := [c
TwoErrorsGrammar ==
  <<"$", "s", "t", "a", "r", "t", " ", "x", "\n", "$", "b", " ", ":", "=", " ", "[",
    "c">>

\* $a := x | y
NoStartGrammar ==
  <<"$", "a", " ", ":", "=", " ", "x", " ", "|", " ", "y">>

\* $n := x | y
\* $start := [!$n = v] $n [($n)]
ShadowGrammar ==
  <<"$", "n", " ", ":", "=", " ", "x", " ", "|", " ", "y", "\n", "$", "s", "t", "a",
    "r", "t", " ", ":", "=", " ", "[", "!", "$", "n", " ", "=", " ", "v", "]", " ",
    "$", "n", " ", "[", "(", "$", "n", ")", "]">>

\* $start := [!$a=10;$b=20] Result is [$a+$b]
CompoundGrammar ==
  <<"$", "s", "t", "a", "r", "t", " ", ":", "=", " ", "[", "!", "$", "a", "=", "1",
    "0", ";", "$", "b", "=", "2", "0", "]", " ", "R", "e", "s", "u", "l", "t", " ",
    "i", "s", " ", "[", "$", "a", "+", "$", "b", "]">>

\* $start := [$$.x = 1; $a = $$.x + 1; $a + 1]
CompoundChainGrammar ==
  <<"$", "s", "t", "a", "r", "t", " ", ":", "=", " ", "[", "$", "$", ".", "x", " ",
    "=", " ", "1", ";", " ", "$", "a", " ", "=", " ", "$", "$", ".", "x", " ", "+",
    " ", "1", ";", " ", "$", "a", " ", "+", " ", "1", "]">>

\* $w := [!$$.a = 1]
\* $start := $w $$.a
RuleWriteGrammar ==
  <<"$", "w", " ", ":", "=", " ", "[", "!", "$", "$", ".", "a", " ", "=", " ", "1",
    "]", "\n", "$", "s", "t", "a", "r", "t", " ", ":", "=", " ", "$", "w", " ", "$",
    "$", ".", "a">>

\* $start := [1 ? $$.b = 2] $$.b
BranchWriteGrammar ==
  <<"$", "s", "t", "a", "r", "t", " ", ":", "=", " ", "[", "1", " ", "?", " ", "$",
    "$", ".", "b", " ", "=", " ", "2", "]", " ", "$", "$", ".", "b">>

\* $start := [($$.c = 3) + $$.c] $$.c
OperandWriteGrammar ==
  <<"$", "s", "t", "a", "r", "t", " ", ":", "=", " ", "[", "(", "$", "$", ".", "c",
    " ", "=", " ", "3", ")", " ", "+", " ", "$", "$", ".", "c", "]", " ", "$", "$",
    ".", "c">>

\* $start := One, two! "x\n" y
PunctuationGrammar ==
  <<"$", "s", "t", "a", "r", "t", " ", ":", "=", " ", "O", "n", "e", ",", " ", "t",
    "w", "o", "!", " ", "\"", "x", "\\", "n", "\"", " ", "y">>

\* $start := "a " b
TrailingSpaceGrammar ==
  <<"$", "s", "t", "a", "r", "t", " ", ":", "=", " ", "\"", "a", " ", "\"", " ", "b">>

\* $start := $$.player.stats
ReadPathGrammar ==
  <<"$", "s", "t", "a", "r", "t", " ", ":", "=", " ", "$", "$", ".", "p", "l", "a",
    "y", "e", "r", ".", "s", "t", "a", "t", "s">>

\* $start := $$.x
ReadGrammar ==
  <<"$", "s", "t", "a", "r", "t", " ", ":", "=", " ", "$", "$", ".", "x">>

\* $start := $$.x.y
ReadThroughGrammar ==
  <<"$", "s", "t", "a", "r", "t", " ", ":", "=", " ", "$", "$", ".", "x", ".", "y">>

\* $start := [$$.hp.x = 1]
AssignThroughGrammar ==
  <<"$", "s", "t", "a", "r", "t", " ", ":", "=", " ", "[", "$", "$", ".", "h", "p",
    ".", "x", " ", "=", " ", "1", "]">>

\* $start := $$.hp.x
ReadThroughNumberGrammar ==
  <<"$", "s", "t", "a", "r", "t", " ", ":", "=", " ", "$", "$", ".", "h", "p", ".",
    "x">>

\* `$r := x | y` / `$start := [!$a = $r] $a`
SilentDrawGrammar ==
  <<"$", "r", " ", ":", "=", " ", "x", " ", "|", " ", "y", "\n", "$", "s", "t", "a",
    "r", "t", " ", ":", "=", " ", "[", "!", "$", "a", " ", "=", " ", "$", "r", "]",
    " ", "$", "a">>

\* `$r := x | y` / `$start := [$a = $r] $a`
LoudDrawGrammar ==
  <<"$", "r", " ", ":", "=", " ", "x", " ", "|", " ", "y", "\n", "$", "s", "t", "a",
    "r", "t", " ", ":", "=", " ", "[", "$", "a", " ", "=", " ", "$", "r", "]", " ",
    "$", "a">>

\* $start := [!$$.hp += 1] $$.hp
SilentWriteGrammar ==
  <<"$", "s", "t", "a", "r", "t", " ", ":", "=", " ", "[", "!", "$", "$", ".", "h",
    "p", " ", "+", "=", " ", "1", "]", " ", "$", "$", ".", "h", "p">>

\* $start := [$$.hp += 1] $$.hp
LoudWriteGrammar ==
  <<"$", "s", "t", "a", "r", "t", " ", ":", "=", " ", "[", "$", "$", ".", "h", "p",
    " ", "+", "=", " ", "1", "]", " ", "$", "$", ".", "h", "p">>

\* `$start := "a` / `b"`: a closed string literal with a line end inside
RawNewlineGrammar ==
  <<"$", "s", "t", "a", "r", "t", " ", ":", "=", " ", "\"", "a", "\n", "b", "\"">>

\* $start := $$.items a | $$.items b
OrderGrammar ==
  <<"$", "s", "t", "a", "r", "t", " ", ":", "=", " ", "$", "$", ".", "i", "t", "e",
    "m", "s", " ", "a", " ", "|", " ", "$", "$", ".", "i", "t", "e", "m", "s", " ",
    "b">>

MoreGrammars ==
  {MultiWordBranchGrammar,
   NoElseGrammar,
   PrecedenceGrammar,
   PrecedenceLevelsGrammar,
   WeightedGrammar,
   ZeroWeightGrammar,
   ItemsGrammar,
   LootGrammar,
   EmptyArrayGrammar,
   UnterminatedGrammar,
   UnterminatedLineGrammar,
   UnexpectedCharGrammar,
   NoDollarGrammar,
   NoAssignGrammar,
   NoBracketGrammar,
   NoParenGrammar,
   NoIdentifierGrammar,
   NoPropertyGrammar,
   EmptyAlternativeGrammar,
   NoRulesGrammar,
   TwoErrorsGrammar,
   NoStartGrammar,
   ShadowGrammar,
   CompoundGrammar,
   CompoundChainGrammar,
   RuleWriteGrammar,
   BranchWriteGrammar,
   OperandWriteGrammar,
   PunctuationGrammar,
   TrailingSpaceGrammar,
   ReadPathGrammar,
   ReadGrammar,
   ReadThroughGrammar,
   AssignThroughGrammar,
   ReadThroughNumberGrammar,
   SilentDrawGrammar,
   LoudDrawGrammar,
   SilentWriteGrammar,
   LoudWriteGrammar,
   RawNewlineGrammar,
   OrderGrammar}

\* the keys and strings of the knowledge objects
Hp == <<"h", "p">>
Player == <<"p", "l", "a", "y", "e", "r">>
Stats == <<"s", "t", "a", "t", "s">>
Name == <<"n", "a", "m", "e">>
Items == <<"i", "t", "e", "m", "s">>
Loot == <<"l", "o", "o", "t">>
Empty == <<"e", "m", "p", "t", "y">>

\* the object with the one key `key` holding v
Obj(key, v) == Tree(MapSet(EmptyMap, key, v))

\* {}, {hp: 100}, {player: {stats: {hp: 100}}},
\* {player: {name: "bob"}, items: ["a", "b", "c"],
\*  loot: [{value: "x", weight: 2}, "y"], empty: []}, and {x: NaN}, which is
\* the updatedKnowledge NaNGrammar returns for {}
Knowledges ==
  {Tree(EmptyMap),
   Obj(Hp, Num(100)),
   Obj(Player, Obj(Stats, Obj(Hp, Num(100)))),
   Tree(Items :> ArrayTree(<<Str(<<"a">>), Str(<<"b">>), Str(<<"c">>)>>)
        @@ Loot :> ArrayTree(<<Tree(ValueKey :> Str(<<"x">>) @@ WeightKey :> Num(2)),
                               Str(<<"y">>)>>)
        @@ Empty :> ArrayTree(<<>>)
        @@ Player :> Obj(Name, Str(<<"b", "o", "b">>))),
   Obj(<<"x">>, NaN)}

\* the knowledge objects of the single executions: those and {x: null}
MoreKnowledges == Knowledges \cup {Obj(<<"x">>, Null)}

MaxSeed == 1

Seeds == 0..MaxSeed

\* what Math.random returns in an unseeded execution, as r for r / 2^32:
\* always 0, or 1/2 and values just below 1 in turn
Entropies == {<<NatOf(0)>>, <<ShiftLeft(NatOf(1), 31), Complement(NatOf(1), 32)>>}

\* the greatest r with r / 2^32 <= 1/6
SixthOfRange == 2 * (2 ^ 30 \div 3)

\* draws at the ends of the range and next to 1/6 and 1/2: always 0, always
\* the last value up to 1/6, always the first value above it, always 1/2,
\* the first value above 1/2 and 0 in turn, or always the last value below 1
ThresholdEntropies ==
  {<<NatOf(0)>>,
   <<NatOf(SixthOfRange)>>,
   <<NatOf(SixthOfRange + 1)>>,
   <<ShiftLeft(NatOf(1), 31)>>,
   <<AddNat(ShiftLeft(NatOf(1), 31), NatOf(1)), NatOf(0)>>,
   <<Complement(NatOf(1), 32)>>}

(***************************************************************************)
(* Generator (generator.ts)                                                *)
(***************************************************************************)
VARIABLES
  grammar,           \* the source text the Generator was compiled from
  ast,               \* Generator.ast: the rules of the Grammar
  argK,              \* the knowledge object of the last execute, before the call
  callerK,           \* the same object, after the call
  seed,              \* the seed of the last execute (Undefined: none)
  output,            \* ExecutionResult.output of the last execute
  updatedKnowledge,  \* ExecutionResult.updatedKnowledge of the last execute
  error,             \* what the last execute threw
  scope,             \* the variables of the context the last execute created
  random,            \* the random source of the last execute: the results it
                     \* drew and, with a seed, the state it was left in
  earlier,           \* one earlier execute with a seed: its arguments and outcome
  item               \* the last `new WeightedItem`: its arguments and outcome

vars ==
  <<grammar, ast, argK, callerK, seed, output, updatedKnowledge, error, scope, random, earlier,
    item>>

None == [t |-> "none"]

\* Generator.compile: the rules, or the error thrown
Compile(source) ==
  With(Tokenize(source), LAMBDA lexed :
    IF lexed.err # NoError THEN [rules |-> EmptyMap, err |-> lexed.err]
    ELSE Parse(lexed.tokens))

\* A seeded source whose state outlives the execution: a later seeded
\* execution goes on from the state the last one left
CreateSeededRandomKept(s) ==
  IF s = Undefined THEN [seeded |-> FALSE, entropy |-> <<>>, drawn |-> <<>>]
  ELSE IF random # None /\ random.seeded THEN [random EXCEPT !.drawn = <<>>]
  ELSE [seeded |-> TRUE, state |-> SeedState(s.n), drawn |-> <<>>]

\* Generator.createSeededRandom
CreateSeededRandom(s) ==
  IF s = Undefined THEN [seeded |-> FALSE, entropy |-> <<>>, drawn |-> <<>>]
  ELSE [seeded |-> TRUE, state |-> SeedState(s.n), drawn |-> <<>>]

\* A context whose variables are not new: from the second execution on, the
\* variable n is still bound
CreateExecutionContextKept(heap, k, s) ==
  LET copy == Alloc(heap, ObjectCell(heap[k.a].props))
  IN Context(Ref(copy.a),
             IF argK = None THEN EmptyMap ELSE MapSet(EmptyMap, <<"n">>, Num(1)),
             copy.heap, CreateSeededRandom(s))

\* Generator.createExecutionContext, for the knowledge object at address k:
\* { ...knowledge } is a new object with the same property values
CreateExecutionContext(heap, k, s) ==
  LET copy == Alloc(heap, ObjectCell(heap[k.a].props))
  IN Context(Ref(copy.a), EmptyMap, copy.heap, CreateSeededRandom(s))

\* Generator.execute(knowledge, seed) with the caller's knowledge object K
\* and, when there is no seed, the values Math.random returns: the context
\* created, the outcome of ast.evaluate, and the caller's object afterwards
Run(rules, K, s, entropy) ==
  With(AllocTree(<<>>, K), LAMBDA caller :
  With(CreateExecutionContext(caller.heap, caller.value, s), LAMBDA created :
  \* without a seed, context.random is Math.random
  With(IF s = Undefined THEN [created EXCEPT !.rng.entropy = entropy] ELSE created,
       LAMBDA context :
  With(EvaluateGrammar(rules, context), LAMBDA result :
    [context |-> context,
     output |-> IF result.err = NoError THEN ReadBack(result.heap, result.value) ELSE None,
     updatedKnowledge |->
       IF result.err = NoError THEN ReadBack(result.heap, result.k) ELSE None,
     error |-> result.err,
     random |-> result.rng,
     callerK |-> ReadBack(result.heap, caller.value)]))))

LastCall ==
  [K |-> argK, seed |-> seed, output |-> output, updatedKnowledge |-> updatedKnowledge,
   error |-> error]

\* a Generator compiled from one of the grammars, before any execute
Compiled(grammars) ==
  /\ grammar \in grammars
  /\ ast = Compile(grammar)
  /\ argK = None
  /\ callerK = None
  /\ seed = None
  /\ output = None
  /\ updatedKnowledge = None
  /\ error = NoError
  /\ scope = None
  /\ random = None
  /\ earlier = None
  /\ item = None

Init == Compiled(Grammars)

\* what an execute leaves behind
Outcome(K, s, run) ==
  /\ argK' = K
  /\ seed' = s
  /\ callerK' = run.callerK
  /\ output' = run.output
  /\ updatedKnowledge' = run.updatedKnowledge
  /\ error' = run.error
  /\ scope' = run.context.variables
  /\ random' = IF run.random.seeded THEN run.random
               ELSE [seeded |-> FALSE, drawn |-> run.random.drawn]
  /\ UNCHANGED <<grammar, ast, item>>

\* an execute after which the observer may keep the previous call, when it
\* had a seed, as the earlier one to compare with
Executed(K, s, run) ==
  /\ Outcome(K, s, run)
  /\ earlier' \in {earlier} \cup (IF argK = None \/ seed = Undefined THEN {} ELSE {LastCall})

\* generator.execute(K, S)
Execute(K, S) ==
  /\ ast.err = NoError
  /\ Executed(K, Num(S), Run(ast.rules, K, Num(S), <<>>))

\* generator.execute(K)
ExecuteUnseeded(K, entropy) ==
  /\ ast.err = NoError
  /\ Executed(K, Undefined, Run(ast.rules, K, Undefined, entropy))

Next ==
  \/ \E K \in Knowledges, S \in Seeds : Execute(K, S)
  \/ \E K \in Knowledges, entropy \in Entropies : ExecuteUnseeded(K, entropy)

Spec == Init /\ [][Next]_vars

(***************************************************************************)
(* Single executions: the grammars of MoreGrammars, each execute observed  *)
(* alone, the unseeded ones with the threshold draws                       *)
(***************************************************************************)
InitAlone == Compiled(MoreGrammars)

\* generator.execute(K, S)
ExecuteAlone(K, S) ==
  /\ ast.err = NoError
  /\ Outcome(K, Num(S), Run(ast.rules, K, Num(S), <<>>))
  /\ UNCHANGED earlier

\* generator.execute(K)
ExecuteAloneUnseeded(K, entropy) ==
  /\ ast.err = NoError
  /\ Outcome(K, Undefined, Run(ast.rules, K, Undefined, entropy))
  /\ UNCHANGED earlier

NextAlone ==
  \/ \E K \in MoreKnowledges, S \in Seeds : ExecuteAlone(K, S)
  \/ \E K \in MoreKnowledges, entropy \in ThresholdEntropies : ExecuteAloneUnseeded(K, entropy)

SpecAlone == InitAlone /\ [][NextAlone]_vars

(***************************************************************************)
(* Weighted items (types.ts): the items a caller constructs for the arrays *)
(* of a knowledge object                                                   *)
(***************************************************************************)
MaxWeight == 5

\* the weights passed: none, or a whole number
Weights == {Undefined} \cup {Num(w) : w \in (0 - MaxWeight)..MaxWeight}

\* the values passed
ItemValues ==
  {Str(<<>>), Str(<<"x">>), Num(0), Num(1), Bool(TRUE), Bool(FALSE), Null, Undefined, NaN}

\* no Generator, no item yet
InitItems ==
  /\ grammar = None
  /\ ast = None
  /\ argK = None
  /\ callerK = None
  /\ seed = None
  /\ output = None
  /\ updatedKnowledge = None
  /\ error = NoError
  /\ scope = None
  /\ random = None
  /\ earlier = None
  /\ item = None

\* new WeightedItem(value, weight)
Construct(value, weight) ==
  /\ item' = [value |-> value, weight |-> weight, made |-> WeightedItem(value, weight)]
  /\ UNCHANGED <<grammar, ast, argK, callerK, seed, output, updatedKnowledge, error, scope,
                 random, earlier>>

NextItems == \E value \in ItemValues, weight \in Weights : Construct(value, weight)

SpecItems == InitItems /\ [][NextItems]_vars

(***************************************************************************)
(* Properties                                                              *)
(***************************************************************************)
\* the value at a path of a knowledge tree; undefined where the path ends
RECURSIVE TreeAt(_, _)
TreeAt(tree, path) ==
  IF path = <<>> THEN tree
  ELSE IF tree.t = "tree" /\ Head(path) \in DOMAIN tree.f
  THEN TreeAt(tree.f[Head(path)], Tail(path))
  ELSE Undefined

\* C1 (determinism): two calls execute(K, S) with the same knowledge K and
\* the same integer seed S on one compiled grammar give the same output and
\* the same updatedKnowledge (and fail alike), whatever executions ran
\* between them.
C1_Determinism ==
  (earlier # None /\ argK # None /\ earlier.K = argK /\ earlier.seed = seed
     /\ seed # Undefined)
    => /\ earlier.output = output
       /\ earlier.updatedKnowledge = updatedKnowledge
       /\ earlier.error = error

\* C1 happens: the grammar with three weighted alternatives was executed
\* twice with the same knowledge and seed, an unseeded execution in between
\* being possible, and returned.
C1_Witness ==
  /\ grammar = GreetingGrammar
  /\ earlier # None
  /\ earlier.K = argK
  /\ earlier.seed = seed
  /\ seed = Num(1)
  /\ output = Str(<<"h", "e", "y">>)

\* C2 (caller knowledge immutability): after execute(K, S) returned or
\* failed, the caller's object K is deep-equal to what it was before the
\* call.
C2_CallerKnowledgeUnchanged == argK # None => callerK = argK

\* C2 happens on return: an assignment two levels down ($$.player.name -= 1)
\* was applied to {player: {stats: {hp: 100}}} and updatedKnowledge differs
\* from K.
C2_Witness ==
  /\ grammar = KnowledgeSubtractGrammar
  /\ argK = Obj(Player, Obj(Stats, Obj(Hp, Num(100))))
  /\ error = NoError
  /\ TreeAt(updatedKnowledge, <<Player, Name>>) = Num(-1)
  /\ TreeAt(updatedKnowledge, <<Player, Stats, Hp>>) = Num(100)

\* C3 (variables copied back): after `$sub` was evaluated in
\* `$start := $sub $x`, where every alternative of sub assigns 5 to x, the
\* reference $x that follows reads 5: the execution returns and its output
\* ends in 5.
C3_VariablesCopiedBack ==
  (grammar \in {SubRuleGrammar, SubRuleChoiceGrammar} /\ argK # None)
    => /\ error = NoError
       /\ output.t = "string"
       /\ output.s # <<>>
       /\ output.s[Len(output.s)] = "5"

\* the messages of the source that match "not defined"
NotDefinedMessages == {"Variable or rule '%' not defined"}

\* C4 (undefined reference): executing `$start := $missing` fails, for any
\* knowledge, with an error whose message matches "not defined".
C4_UndefinedReference ==
  (grammar = MissingGrammar /\ argK # None)
    => /\ error # NoError
       /\ Messages(error) \cap NotDefinedMessages # {}

\* every key and nested path of `before` off the assigned path has the same
\* value in `after`
RECURSIVE FrameHolds(_, _, _)
FrameHolds(before, after, path) ==
  \/ path = <<>>
  \/ before.t # "tree"
  \/ /\ after.t = "tree"
     /\ \A key \in DOMAIN before.f :
          /\ key \in DOMAIN after.f
          /\ IF key = Head(path)
             THEN FrameHolds(before.f[key], after.f[key], Tail(path))
             ELSE after.f[key] = before.f[key]

\* the knowledge path the one assignment of the grammar assigns to
AssignedPath ==
  CASE grammar = KnowledgeAddGrammar -> <<Hp>>
    [] grammar = NestedAssignGrammar -> <<Player, Stats, Hp>>
    [] grammar = KnowledgeSubtractGrammar -> <<Player, Name>>

\* C5 (frame of a knowledge assignment): when a grammar whose start rule is
\* one assignment to the knowledge path P returns, every key and nested path
\* of K other than P has the same value in updatedKnowledge.
C5_Frame ==
  (grammar \in {KnowledgeAddGrammar, NestedAssignGrammar, KnowledgeSubtractGrammar}
     /\ argK # None /\ error = NoError)
    => FrameHolds(argK, updatedKnowledge, AssignedPath)

\* C6 (fresh variable scope): every execution starts with an empty variable
\* scope, so `[$n += 1]` finds n unbound in every execution and gives "01"
\* each time.
C6_FreshScope ==
  argK # None
    => /\ scope = EmptyMap
       /\ grammar = CounterGrammar => output = Str(<<"0", "1">>)

\* C6 happens: `[$n += 1]` was executed at least twice and the later
\* execution gave what the earlier one gave.
C6_Witness ==
  /\ grammar = CounterGrammar
  /\ earlier # None
  /\ earlier.output = Str(<<"0", "1">>)
  /\ output = Str(<<"0", "1">>)

\* C7 (numeric +=): `[!$a = 10] [$a += 5]` gives the sum 15 of the variable's
\* value and the right-hand value, and `[$$.hp += 5]` on {hp: 100} gives 105
\* and stores the number 105.
C7_NumericSum ==
  /\ (grammar = VariableAddGrammar /\ argK # None) => output = Str(<<"1", "5">>)
  /\ (grammar = KnowledgeAddGrammar /\ argK = Obj(Hp, Num(100)))
       => /\ output = Str(<<"1", "0", "5">>)
          /\ TreeAt(updatedKnowledge, <<Hp>>) = Num(105)

\* C8 (-= on non-numeric values): `[!$x = abc] [$x -= 1]`, and
\* `[$$.player.name -= 1]` on a knowledge whose player.name is "bob", fail
\* with the error "Subtraction is only valid for numeric values".
C8_SubtractionFails ==
  (\/ grammar = VariableSubtractGrammar /\ argK # None
   \/ /\ grammar = KnowledgeSubtractGrammar
      /\ argK # None
      /\ TreeAt(argK, <<Player, Name>>) = Str(<<"b", "o", "b">>))
    => /\ error # NoError
       /\ "Subtraction is only valid for numeric values" \in Messages(error)

C10_UnbracketedApplied ==
  (grammar = UnbracketedGrammar /\ argK = Obj(Player, Obj(Stats, Obj(Hp, Num(100)))))
    => /\ error = NoError
       /\ TreeAt(updatedKnowledge, <<Player, Stats, Hp>>) = Num(110)
       /\ TreeAt(callerK, <<Player, Stats, Hp>>) = Num(100)

\* C11 (several words in a branch): `$start := [$$.hp ? well protected]`
\* compiles, and executed on {hp: 100}, where the true branch is selected,
\* the output is "well protected".
C11_MultiWordBranch ==
  grammar = MultiWordBranchGrammar
    => /\ ast.err = NoError
       /\ argK = Obj(Hp, Num(100))
            => output = Str(<<"w", "e", "l", "l", " ", "p", "r", "o", "t", "e", "c", "t", "e", "d">>)

\* C12 (no else, falsy condition): `$start := [$$.hp > 200 ? yes]` executed
\* on a knowledge whose hp is 100 returns without error, with the empty
\* string as output and with updatedKnowledge equal to the knowledge given.
C12_NoElseEmpty ==
  (grammar = NoElseGrammar /\ argK # None /\ TreeAt(argK, <<Hp>>) = Num(100))
    => /\ error = NoError
       /\ output = Str(<<>>)
       /\ updatedKnowledge = argK

\* C12 happens: the conditional without else was executed on {hp: 100},
\* where 100 > 200 is false, and the execution returned.
C12_Witness ==
  /\ grammar = NoElseGrammar
  /\ argK = Obj(Hp, Num(100))
  /\ output # None

\* the AST of the one element of the one alternative of the rule start
StartElement == ast.rules[StartName].alternatives[1].elements[1]

\* C13 (precedence): `[10 + 5 * 2]` compiles to 10 + (5 * 2) and every
\* execution gives 20; `[$r = 8 - 6 / 2 > 4]` compiles to the assignment
\* $r = ((8 - (6 / 2)) > 4) and every execution gives true.
C13_Precedence ==
  /\ grammar = PrecedenceGrammar
       => /\ ast.err = NoError
          /\ StartElement.operator = <<"+">>
          /\ StartElement.right.operator = <<"*">>
          /\ argK # None => output = Str(<<"2", "0">>)
  /\ grammar = PrecedenceLevelsGrammar
       => /\ ast.err = NoError
          /\ StartElement.k = "Assignment"
          /\ StartElement.expression.operator = <<">">>
          /\ StartElement.expression.left.operator = <<"-">>
          /\ StartElement.expression.left.right.operator = <<"/">>
          /\ argK # None => output = Str(<<"t", "r", "u", "e">>)

\* C13 happens: `[10 + 5 * 2]` was executed and returned.
C13_Witness ==
  /\ grammar = PrecedenceGrammar
  /\ argK # None
  /\ error = NoError

\* the output of an execution of `$start := a | b :: 2 | c :: 3` whose draw
\* is u = result / 2^32: a up to 1/6, b up to 1/2, c above
WeightedOutput(result) ==
  IF ScaledLeq(result, 6, 1) THEN Str(<<"a">>)
  ELSE IF ScaledLeq(result, 6, 3) THEN Str(<<"b">>)
  ELSE Str(<<"c">>)

\* C14 (weighted selection): every execution of
\* `$start := a | b :: 2 | c :: 3` makes one draw u and gives the first
\* alternative whose cumulative weight 1, 3, 6 is >= 6u: a for u <= 1/6, b
\* for 1/6 < u <= 1/2, c for u > 1/2; so a for the draws 0 and the last one
\* up to 1/6, b for the next one and for 1/2, c for the first one above 1/2
\* and for the last one below 1.
C14_WeightedShares ==
  (grammar = WeightedGrammar /\ argK # None)
    => /\ error = NoError
       /\ Len(random.drawn) = 1
       /\ output = WeightedOutput(random.drawn[1])
       /\ random.drawn[1] \in {NatOf(0), NatOf(SixthOfRange)} => output = Str(<<"a">>)
       /\ random.drawn[1] \in {NatOf(SixthOfRange + 1), ShiftLeft(NatOf(1), 31)}
            => output = Str(<<"b">>)
       /\ random.drawn[1] \in {AddNat(ShiftLeft(NatOf(1), 31), NatOf(1)),
                               Complement(NatOf(1), 32)}
            => output = Str(<<"c">>)

\* C14 happens: the draw was exactly 1/2, the end of the share of b.
C14_Witness ==
  /\ grammar = WeightedGrammar
  /\ argK # None
  /\ random.drawn = <<ShiftLeft(NatOf(1), 31)>>
  /\ output = Str(<<"b">>)

\* C15 (positive weights): every alternative of every rule of a compiled
\* grammar has a weight > 0.
C15_PositiveWeights ==
  ast.err = NoError
    => \A name \in DOMAIN ast.rules :
         \A i \in 1..Len(ast.rules[name].alternatives) :
           ast.rules[name].alternatives[i].weight > 0

\* C16 (array selection), on the knowledge with items: ["a", "b", "c"],
\* loot: [{value: "x", weight: 2}, "y"] and empty: []: `$$.empty` gives the
\* empty string without a draw; `$$.loot` makes one draw u and gives x, the
\* unwrapped value of the item of weight 2, for 3u <= 2 and y otherwise;
\* `$$.items` makes one draw u and gives the element at index floor(3u).
\* Each returns without error and with the knowledge unchanged.
C16_ArraySelection ==
  (argK # None /\ argK.t = "tree" /\ Items \in DOMAIN argK.f)
    => /\ grammar \in {EmptyArrayGrammar, LootGrammar, ItemsGrammar}
            => error = NoError /\ updatedKnowledge = argK
       /\ grammar = EmptyArrayGrammar
            => output = Str(<<>>) /\ random.drawn = <<>>
       /\ grammar = LootGrammar
            => /\ Len(random.drawn) = 1
               /\ output = Str(IF ScaledLeq(random.drawn[1], 3, 2) THEN <<"x">> ELSE <<"y">>)
       /\ grammar = ItemsGrammar
            => /\ Len(random.drawn) = 1
               /\ output = Str(<<<<"a", "b", "c">>[ScaledFloor(random.drawn[1], 3) + 1]>>)

\* C16 happens: `$$.loot` was executed with the first draw above 1/2, which
\* is within the weight 2 of 3 of the first item, and gave its value x.
C16_Witness ==
  /\ grammar = LootGrammar
  /\ argK # None
  /\ random.drawn = <<AddNat(ShiftLeft(NatOf(1), 31), NatOf(1))>>
  /\ output = Str(<<"x">>)

\* C17 (lexical errors): compile of a text whose string literal is never
\* closed fails with "Unterminated string" and the line and column of the
\* opening quote, as for the quote at line 2, column 11 of `$a := b` /
\* `$start := "cd` and the quote at line 1, column 11 of `$start := "a`
\* followed by a line end; compile of `$start := a` / `@` fails with
\* "Unexpected character '@'" at line 2, column 1.
C17_LexicalErrors ==
  /\ grammar = UnterminatedGrammar => ast.err = ParseError("Unterminated string", 2, 11)
  /\ grammar = UnterminatedLineGrammar => ast.err = ParseError("Unterminated string", 1, 11)
  /\ grammar = UnexpectedCharGrammar => ast.err = ParseError("Unexpected character '%'", 2, 1)

\* the ParseError each text with a structural error fails with: the message,
\* and the line and column of the token the parser stood at
StructuralErrors ==
  NoDollarGrammar :> ParseError("Expected $ before rule name", 2, 1)
  @@ NoAssignGrammar :> ParseError("Expected ':=' after rule name", 1, 8)
  @@ NoBracketGrammar :> ParseError("Expected ']' after bracketed expression", 1, 13)
  @@ NoParenGrammar :> ParseError("Expected ')' after expression", 1, 14)
  @@ NoIdentifierGrammar :> ParseError("Expected identifier after $", 1, 12)
  @@ NoPropertyGrammar :> ParseError("Expected property name after .", 1, 17)
  @@ EmptyAlternativeGrammar :> ParseError("Empty alternative", 1, 14)
  @@ NoRulesGrammar :> ParseError("No rules found", 1, 1)
  @@ TwoErrorsGrammar :> ParseError("Expected ':=' after rule name", 1, 8)

C19_NoStartRule ==
  (grammar = NoStartGrammar /\ argK # None)
    => /\ error # NoError
       /\ error.name = "EvaluationError"
       /\ "No start rule defined" \in Messages(error)
       /\ random.drawn = <<>>

\* C19 happens: the grammar without a rule start was executed with a seed
\* and without one.
C19_Witness ==
  /\ grammar = NoStartGrammar
  /\ argK # None
  /\ seed = Undefined
  /\ error # NoError

\* C20 (shadowing): in `$n := x | y` / `$start := [!$n = v] $n [($n)]` the
\* name n is a rule with two alternatives and, after the assignment, a bound
\* variable; `$n` as a rule reference and `($n)` as a variable reference both
\* give the variable's value v, and the rule n is not evaluated: nothing is
\* drawn and updatedKnowledge is the knowledge given.
C20_VariableShadowsRule ==
  (grammar = ShadowGrammar /\ argK # None)
    => /\ error = NoError
       /\ output = Str(<<"v", " ", "v">>)
       /\ random.drawn = <<>>
       /\ updatedKnowledge = argK

\* C20 happens: the grammar was compiled with `$n` as a RuleReference and
\* `($n)` as a VariableReference, and executed.
C20_Witness ==
  /\ grammar = ShadowGrammar
  /\ argK # None
  /\ ast.rules[StartName].alternatives[1].elements[2].k = "RuleReference"
  /\ ast.rules[StartName].alternatives[1].elements[3].k = "VariableReference"
  /\ <<"n">> \in DOMAIN ast.rules
  /\ output = Str(<<"v", " ", "v">>)

\* C21 (weighted item construction): `new WeightedItem(value, weight)` with
\* weight <= 0 throws "Weight must be positive" and makes no item; with
\* weight > 0, or without a weight (then 1.0), it makes the item holding the
\* value and the weight given.
C21_WeightedItem ==
  item # None
    => With(IF item.weight = Undefined THEN 1 ELSE item.weight.n, LAMBDA w :
         IF w <= 0
         THEN /\ item.made.err = JsError("Weight must be positive")
              /\ item.made.item = Undefined
         ELSE /\ item.made.err = NoError
              /\ TreeAt(item.made.item, <<ValueKey>>) = item.value
              /\ TreeAt(item.made.item, <<WeightKey>>) = Num(w))

\* C21 happens: an item was constructed with the weight 0 and failed.
C21_Witness ==
  /\ item # None
  /\ item.weight = Num(0)
  /\ item.made.err # NoError

\* C22 (compound expression): `$start := [!$a=10;$b=20] Result is [$a+$b]`
\* gives "Result is 30" in every execution: both bindings made in the bracket
\* are visible to the later element.  `[$$.x = 1; $a = $$.x + 1; $a + 1]` on
\* {} gives 3, the value of the last expression, which reads the variable the
\* second one bound from the knowledge the first one wrote, and returns
\* {x: 1}.
C22_CompoundExpression ==
  /\ (grammar = CompoundGrammar /\ argK # None)
       => /\ error = NoError
          /\ output = Str(<<"R", "e", "s", "u", "l", "t", " ", "i", "s", " ", "3", "0">>)
  /\ (grammar = CompoundChainGrammar /\ argK = Tree(EmptyMap))
       => /\ error = NoError
          /\ output = Str(<<"3">>)
          /\ updatedKnowledge = Obj(<<"x">>, Num(1))

\* C22 happens: the compound bracket of three expressions was executed on {}.
C22_Witness ==
  /\ grammar = CompoundChainGrammar
  /\ argK = Tree(EmptyMap)
  /\ Len(StartElement.expressions) = 3
  /\ output = Str(<<"3">>)

\* C23 (knowledge threading): in every execution the element after a write
\* reads what was written, and the write is in updatedKnowledge:
\* `$w := [!$$.a = 1]` / `$start := $w $$.a` (write inside a referenced
\* rule) gives 1; `[1 ? $$.b = 2] $$.b` (write inside a conditional branch)
\* gives "2 2"; `[($$.c = 3) + $$.c] $$.c` (write inside the left operand,
\* read by the right operand and by the next element) gives "6 3".
C23_KnowledgeThreading ==
  argK # None
    => /\ grammar = RuleWriteGrammar
            => /\ output = Str(<<"1">>)
               /\ TreeAt(updatedKnowledge, <<<<"a">>>>) = Num(1)
       /\ grammar = BranchWriteGrammar
            => /\ output = Str(<<"2", " ", "2">>)
               /\ TreeAt(updatedKnowledge, <<<<"b">>>>) = Num(2)
       /\ grammar = OperandWriteGrammar
            => /\ output = Str(<<"6", " ", "3">>)
               /\ TreeAt(updatedKnowledge, <<<<"c">>>>) = Num(3)

\* C23 happens: the write inside the referenced rule was executed on
\* {hp: 100} and the knowledge returned holds both hp and a.
C23_Witness ==
  /\ grammar = RuleWriteGrammar
  /\ argK = Obj(Hp, Num(100))
  /\ updatedKnowledge = Tree(Hp :> Num(100) @@ <<"a">> :> Num(1))

\* C24 (spacing): `$start := One, two! "x\n" y` gives "One, two! x" + line
\* end + "y": one space between values, none before `,` and `!`, none after
\* an output ending in a line end; and `$start := "a " b` gives "a b": no
\* space is inserted after an output that already ends in a space.
C24_Spacing ==
  argK # None
    => /\ grammar = PunctuationGrammar
            => output = Str(<<"O", "n", "e", ",", " ", "t", "w", "o", "!", " ", "x", "\n", "y">>)
       /\ grammar = TrailingSpaceGrammar => output = Str(<<"a", " ", "b">>)

\* C25 (knowledge read): `$$.player.stats` returns, with the knowledge
\* unchanged, where player and player.stats exist, and fails otherwise with
\* the error naming the first missing property, the path resolved before it
\* and the keys available there; `$$.x` fails where x is absent or null;
\* `$$.x.y` fails on every knowledge of the model; and no read changes the
\* caller's object or the knowledge returned.
C25_KnowledgeRead ==
  (argK # None /\ grammar \in {ReadPathGrammar, ReadGrammar, ReadThroughGrammar})
    => /\ callerK = argK
       /\ error = NoError => updatedKnowledge = argK
       /\ grammar = ReadPathGrammar
            => IF Player \notin DOMAIN argK.f
               THEN error.cause = PropertyNotFound(Player, <<>>, DOMAIN argK.f)
               ELSE IF Stats \notin DOMAIN argK.f[Player].f
               THEN error.cause = PropertyNotFound(Stats, <<Player>>, DOMAIN argK.f[Player].f)
               ELSE error = NoError
       /\ grammar = ReadGrammar
            => (TreeAt(argK, <<<<"x">>>>) \in {Undefined, Null} => error # NoError)
       /\ grammar = ReadThroughGrammar => error # NoError

\* C26 (structured failures): whatever an execute throws is an
\* EvaluationError; `$$.hp.x` and `[$$.hp.x = 1]` executed on a knowledge
\* whose hp is the number 100 both fail, with an EvaluationError.
C26_EvaluationErrors ==
  /\ error # NoError => error.name = "EvaluationError"
  /\ (/\ grammar \in {ReadThroughNumberGrammar, AssignThroughGrammar}
      /\ argK # None
      /\ TreeAt(argK, <<Hp>>) = Num(100))
       => error # NoError

\* the grammar that differs from a grammar with `[!e]` only in having `[e]`
LoudOf(silent) ==
  IF silent = SilentDrawGrammar THEN LoudDrawGrammar ELSE LoudWriteGrammar

\* what execute leaves of the entropy source
Observed(rng) == IF rng.seeded THEN rng ELSE [seeded |-> FALSE, drawn |-> rng.drawn]

\* the outcome of `[e] rest` agrees with the outcome of `[!e] rest` in the
\* knowledge returned, the caller's object, the variables, the entropy source
\* and the error, and its output is the value of e, a space and the output
\* of `[!e] rest` (in both pairs rest reads the value e produced)
SameButOutput(loud, silent) ==
  /\ loud.updatedKnowledge = silent.updatedKnowledge
  /\ loud.callerK = silent.callerK
  /\ loud.context.variables = silent.context.variables
  /\ Observed(loud.random) = Observed(silent.random)
  /\ loud.error = silent.error
  /\ silent.error = NoError
       => /\ silent.output.t = "string"
          /\ loud.output = Str(silent.output.s \o <<" ">> \o silent.output.s)

\* C27 (silent expression equivalence): whenever `[!$a = $r] $a` or
\* `[!$$.hp += 1] $$.hp` has been executed, executing the grammar with `[e]`
\* in place of `[!e]` on the same knowledge with the same seed gives the same
\* updatedKnowledge, variables, generator state and error, and an output that
\* differs only by the value of e in front; without a seed the same holds for
\* every sequence of Math.random values.
C27_SilentEquivalence ==
  (argK # None /\ grammar \in {SilentDrawGrammar, SilentWriteGrammar})
    => IF seed # Undefined
       THEN With(Run(Compile(LoudOf(grammar)).rules, argK, seed, <<>>), LAMBDA loud :
              SameButOutput(loud,
                [updatedKnowledge |-> updatedKnowledge, callerK |-> callerK,
                 context |-> [variables |-> scope], random |-> random,
                 error |-> error, output |-> output]))
       ELSE \A entropy \in ThresholdEntropies :
              SameButOutput(Run(Compile(LoudOf(grammar)).rules, argK, seed, entropy),
                            Run(ast.rules, argK, seed, entropy))

\* C27 happens: `[!$a = $r] $a` was executed with a seed, one value was drawn
\* to choose between x and y, and the output is the value of $a alone.
C27_Witness ==
  /\ argK # None
  /\ grammar = SilentDrawGrammar
  /\ seed # Undefined
  /\ error = NoError
  /\ Len(random.drawn) = 1
  /\ output \in {Str(<<"x">>), Str(<<"y">>)}

\* the number of EOF tokens among tokens[1..n]
RECURSIVE CountEOF(_, _)
CountEOF(tokens, n) ==
  IF n = 0 THEN 0
  ELSE CountEOF(tokens, n - 1) + (IF tokens[n].type = "EOF" THEN 1 ELSE 0)

\* C28 (tokenize terminates): for the text of every Generator, tokenize
\* returns: either a token sequence whose last token is its only EOF token,
\* or a ParseError; this includes `$start := "a` + line end + `b"` and
\* `$start := "a` + line end, whose string literals hold a raw line end.
C28_TokenizeTerminates ==
  With(Tokenize(grammar), LAMBDA lexed :
    /\ lexed.err # NoReturn
    /\ lexed.err = NoError
         => /\ Len(lexed.tokens) > 0
            /\ lexed.tokens[Len(lexed.tokens)].type = "EOF"
            /\ CountEOF(lexed.tokens, Len(lexed.tokens)) = 1
    /\ lexed.err # NoError => lexed.err.name = "ParseError")

\* the names of the rules with two or more alternatives
Choices(rules) == {name \in DOMAIN rules : Len(rules[name].alternatives) >= 2}

\* C29 (entropy consumption): after every execute, random.drawn, the values
\* drawn during it, is empty when no rule of the grammar has two alternatives
\* and the knowledge holds no array; holds one value when `start` is the only
\* rule with two or more alternatives, or when one such rule is referenced
\* once, and the knowledge holds no array; holds one value after the read of
\* $$.items or $$.loot and none after the read of the empty $$.empty.  For
\* `$start := $$.items a | $$.items b` the first value drawn chooses between
\* the alternatives and the second the item, and when $$.items is missing the
\* one value was drawn before the read failed.
C29_EntropyConsumption ==
  argK # None
    => /\ (Choices(ast.rules) = {} /\ Items \notin DOMAIN argK.f) => random.drawn = <<>>
       /\ (Choices(ast.rules) = {StartName} /\ Items \notin DOMAIN argK.f)
            => Len(random.drawn) = 1
       /\ grammar \in {SubRuleChoiceGrammar, SilentDrawGrammar, LoudDrawGrammar}
            => Len(random.drawn) = 1
       /\ (grammar \in {ItemsGrammar, LootGrammar} /\ Items \in DOMAIN argK.f)
            => Len(random.drawn) = 1
       /\ grammar = EmptyArrayGrammar => random.drawn = <<>>
       /\ (grammar = OrderGrammar /\ Items \notin DOMAIN argK.f)
            => error # NoError
       /\ (grammar = OrderGrammar /\ Items \in DOMAIN argK.f)
            => /\ Len(random.drawn) = 2
               /\ output = Str(<<argK.f[Items].items[ScaledFloor(random.drawn[2], 3) + 1].s[1],
                                 " ",
                                 IF ScaledLeq(random.drawn[1], 2, 1) THEN "a" ELSE "b">>)

\* C29 happens: `$start := $$.items a | $$.items b` was executed on the
\* knowledge with items ["a", "b", "c"] with Math.random returning a value
\* above 1/2 and then 0: the second alternative and the first item.
C29_Witness ==
  /\ argK # None
  /\ grammar = OrderGrammar
  /\ random.drawn = <<AddNat(ShiftLeft(NatOf(1), 31), NatOf(1)), NatOf(0)>>
  /\ output = Str(<<"a", " ", "b">>)

\* C30 (output is a string): the output of every execute that returned is a
\* string; `[10 + 5 * 2]`, whose element yields the number 20, gives "20",
\* `[$r = 8 - 6 / 2 > 4]`, whose element yields the boolean of the
\* assignment, gives "true", and `[$n += 1]` gives "1".
C30_OutputIsString ==
  (argK # None /\ error = NoError)
    => /\ output.t = "string"
       /\ grammar = PrecedenceGrammar => output = Str(<<"2", "0">>)
       /\ grammar = PrecedenceLevelsGrammar => output = Str(<<"t", "r", "u", "e">>)
       /\ grammar = CounterGrammar => output = Str(<<"1">>)

\* C30 happens: `[$r = 8 - 6 / 2 > 4]` was executed and returned the string
\* of the boolean.
C30_Witness ==
  /\ argK # None
  /\ error = NoError
  /\ grammar = PrecedenceLevelsGrammar
  /\ output = Str(<<"t", "r", "u", "e">>)

=============================================================================
